---- MODULE Spec2Model ----
(***************************************************************************)
(* Model of the particle physics engine of particles/src/physics.rs:       *)
(* the Controller (struct Physics) and the Worker (PhysicsThread::thread), *)
(* the snapshot queue (crossbeam Injector, FIFO), the command and response *)
(* channels (bounded(1)), the Parker/Unparker token and the mutex-guarded  *)
(* reset flag.                                                             *)
(*                                                                         *)
(* Numbers.  Coordinates are integers in units of 1/One (the box is        *)
(* [-One, One]).  Velocities are kept as displacement per integration step *)
(* (v * dt, dt = 0.1 s), so MAX_VELOCITY * dt = 0.05 is 2 units.           *)
(* Times are integers; one integration step (0.1 s) is TimeStep units, so  *)
(* that a query time can fall strictly between two snapshots.              *)
(***************************************************************************)
EXTENDS Integers, Sequences, FiniteSets, TLC

\* ------------------------------------------------------------------ bounds
MaxOps == 3            \* Controller calls made in one behaviour
MaxParticles == 2      \* the Controller never asks for more particles than this
MaxPop == 2            \* largest n passed to pop
MaxT == 4              \* largest query time passed to get_state
MaxEval == 2           \* evaluations of the derivative in DerivSpec
MaxLines == 3          \* lines of a document handed to Inputs::new
MaxFairOps == 2        \* calls the Controller makes in FairSpec
MaxFrames == 10        \* frames run_headless sends to the encoder
MaxRenders == 2        \* Particles::render calls
MaxSlider == 2         \* largest particle count the slider asks for

\* --------------------------------------------------------------- constants
One == 40              \* the literal 1.0
TimeStep == 2          \* the step 0.1 s of with_minimum_dt / with_maximum_dt
FailLimit == 50        \* failed_circles < 50
HeadlessThreshold == 2
DisplayThreshold == 100
InitialTime == 0
InitialAspect == 1

Radii == {2, 30}                   \* radius handed to Physics::new: a small one,
                                   \* and one so large that two particles
                                   \* cannot be placed 2 * radius apart
AspectRatios == {1, 2}             \* ratios handed to update_aspect_ratio
DisplayModes == {FALSE}            \* display handed to Physics::new

\* what one round of rng.sample calls can return (x, y and the velocity made
\* of new_velocity and angle), cut down to a few representatives: a candidate
\* exactly on the edge of the box inset by radius 2, one just inside that edge
\* moving towards it (both outside the box inset by radius 30), and one near
\* the centre, just inside the top edge of the box inset by radius 30
Samples ==
  { [pos |-> <<38, 0>>, vel |-> <<0, 0>>],
    [pos |-> <<37, 0>>, vel |-> <<2, 0>>],
    [pos |-> <<0, 9>>, vel |-> <<-1, 1>>] }

VARIABLES
  \* shared
  deque,          \* Injector<(f32, BVector)>: sequence of [time, state]
  lock,           \* the bool inside Mutex<bool> (reset in progress)
  lock_owner,     \* who holds the mutex guard: "none", "worker", "controller"
  reset_ch,       \* command channel, bounded(1)
  response_ch,    \* response channel, bounded(1)
  token,          \* Parker token
  closed,         \* Physics handle dropped: channels closed
  display,
  \* Controller (struct Physics)
  c_pc, c_time, c_radius, c_aspect, c_np, scratchpad, c_arg, result, ops,
  \* Worker (PhysicsThread and the locals of thread())
  w_pc, w_time, w_radius, w_aspect, w_np, velocities, solver, len, msg,
  start_time, start_state, idx, failed_circles, new_particles,
  \* history
  h_pre,          \* Worker and Controller state when the current command started
  h_window,       \* a Reset handshake has set the flag and Reset is not yet applied
  h_seen,         \* the Worker saw the flag during the current handshake
  h_received, h_responded,
  h_calls,        \* the Controller calls made so far, in order
  h_pushed,       \* time of the last snapshot the Worker pushed, -1 before the first
  h_owed,         \* the depth measured after the last publish exceeded the
                  \* threshold and park has not been called since
  h_avail,        \* snapshots that were queued when the running get_state was
                  \* called and that it has not removed yet
  h_nopick,       \* the last reset() found no snapshot with time <= self.time
  \* outside the physics engine
  toml,           \* input.rs: the document handed to Inputs::new, as lines
  parsed,         \* input.rs: what Inputs::new returned for it
  \* simulation/encoder.rs and run_headless
  e_frames,       \* the frame channel, bounded(8)
  e_finished,     \* the finish channel, bounded(1)
  e_sent,         \* frames run_headless has sent
  p_pc,           \* run_headless: "frames", "join", "done"
  e_pc,           \* encoding_loop: "loop", "flush", "done"
  frame_idx,      \* encoding_loop: frame_idx
  e_delayed,      \* pictures the x264 encoder holds and has not emitted yet
  e_encoded,      \* frames passed to encoder.encode, in order
  e_out,          \* out_file: the NAL units written, in order
  \* particles/src/lib.rs: PhysicsMessager, physics_thread, Particles
  pm_send,        \* main_tx -> main_rx, bounded(10)
  pm_recv,        \* worker_tx -> worker_rx, bounded(10)
  pm_send_closed, \* self.send.close() was called
  pm_recv_closed, \* self.recv.close() was called
  t_pc,           \* physics_thread: "recv", "send", "ended"
  t_resp,         \* physics_thread: the response it is about to send
  circles,        \* physics_thread: the particles of its Physics
  r_pc,           \* Particles::render and the call it is in
  r_input,        \* inputs["controls.count"]
  r_physics_len,  \* render: physics_len
  r_val,          \* render: val
  s_num,          \* Particles::spawn: num
  s_idx,          \* Particles::spawn: idx
  s_failed,       \* Particles::spawn: failed_circles
  r_req,          \* requests that wait for a response, counted
  r_resp,         \* the last response a call received and the request it was for
  renders,        \* render calls that returned
  h_left,         \* messages that were queued when the PhysicsMessager was dropped
  h_done          \* messages the thread has taken since the drop

shared == <<deque, lock, lock_owner, reset_ch, response_ch, token, closed, display>>
cvars == <<c_pc, c_time, c_radius, c_aspect, c_np, scratchpad, c_arg, result, ops>>
wvars == <<w_pc, w_time, w_radius, w_aspect, w_np, velocities, solver, len, msg,
           start_time, start_state, idx, failed_circles, new_particles>>
hvars == <<h_pre, h_window, h_seen, h_received, h_responded, h_calls>>
gvars == <<h_pushed, h_owed, h_avail, h_nopick>>
evars == <<e_frames, e_finished, e_sent, p_pc, e_pc, frame_idx, e_delayed, e_encoded, e_out>>
mvars == <<pm_send, pm_recv, pm_send_closed, pm_recv_closed, t_pc, t_resp, circles,
           r_pc, r_input, r_physics_len, r_val, s_num, s_idx, s_failed, r_req, r_resp,
           renders, h_left, h_done>>
xvars == <<toml, parsed, evars, mvars>>
vars == <<shared, cvars, wvars, hvars, gvars, xvars>>

\* ----------------------------------------------------------------- vectors
Max(a, b) == IF a > b THEN a ELSE b

Zeros(n) == [i \in 1..n |-> 0]

Take(s, n) == [i \in 1..n |-> s[i]]

Last(s) == s[Len(s)]

Threshold == IF display THEN DisplayThreshold ELSE HeadlessThreshold

NoMsg == [kind |-> "none"]

NoResult == [kind |-> "none"]

NotParsed == [kind |-> "none"]

Absent == [kind |-> "absent"]

NoResponse == [got |-> NoMsg, for |-> NoMsg]

\* PhysicsMessager::new has returned: both channels are empty, the thread has
\* built its Physics, which holds no particle, and waits for a message
InitMessager(input) ==
  /\ pm_send = <<>>
  /\ pm_recv = <<>>
  /\ pm_send_closed = FALSE
  /\ pm_recv_closed = FALSE
  /\ t_pc = "recv"
  /\ t_resp = NoMsg
  /\ circles = <<>>
  /\ r_pc = "idle"
  /\ r_input = input
  /\ r_physics_len = 0
  /\ r_val = 0
  /\ s_num = 0
  /\ s_idx = 0
  /\ s_failed = 0
  /\ r_req = 0
  /\ r_resp = NoResponse
  /\ renders = 0
  /\ h_left = 0
  /\ h_done = 0

\* encoder(size, delta_t, out_file) has returned: both channels are empty,
\* the thread is about to enter its loop, run_headless has sent nothing
InitEncoder ==
  /\ e_frames = <<>>
  /\ e_finished = <<>>
  /\ e_sent = 0
  /\ p_pc = "frames"
  /\ e_pc = "loop"
  /\ frame_idx = 0
  /\ e_delayed = <<>>
  /\ e_encoded = <<>>
  /\ e_out = <<>>


\* ------------------------------------------------------ particle_derivative
HitX(x, radius) == x <= -One + radius \/ x >= One - radius

\* mutant: the y test uses the radius without the aspect ratio
HitY_NoAspect(y, radius, aspect_ratio) == y <= -One + radius \/ y >= One - radius

HitY(y, radius, aspect_ratio) ==
  y <= -One + radius * aspect_ratio \/ y >= One - radius * aspect_ratio

\* velocity[0] *= -1.0 / velocity[1] *= -1.0 for every particle of y
\* mutant: a particle that hits a wall loses that velocity component
FlipVelocities_Stop(y, data, vel) ==
  [i \in 1..Len(vel) |->
     IF i > Len(y) THEN vel[i]
     ELSE IF i % 2 = 1
          THEN (IF HitX(y[i], data.radius) THEN 0 ELSE vel[i])
          ELSE (IF HitY(y[i], data.radius, data.aspect_ratio) THEN 0 ELSE vel[i])]

FlipVelocities(y, data, vel) ==
  [i \in 1..Len(vel) |->
     IF i > Len(y) THEN vel[i]
     ELSE IF i % 2 = 1
          THEN (IF HitX(y[i], data.radius) THEN -vel[i] ELSE vel[i])
          ELSE (IF HitY(y[i], data.radius, data.aspect_ratio) THEN -vel[i] ELSE vel[i])]

\* the returned derivative: the velocity components after the negations
particle_derivative(y, data, vel) ==
  [i \in 1..Len(y) |-> FlipVelocities(y, data, vel)[i]]

\* one step of the fixed-step Euler solver: y + dt * f(t, y) at time t + dt
\* mutant: the step leaves the time where it is
EulerStep_NoAdvance(s, vel) ==
  LET d == particle_derivative(s.state, s.data, vel)
  IN  [time |-> s.time,
       state |-> [i \in 1..Len(s.state) |-> s.state[i] + d[i]],
       data |-> s.data]

EulerStep(s, vel) ==
  LET d == particle_derivative(s.state, s.data, vel)
  IN  [time |-> s.time + TimeStep,
       state |-> [i \in 1..Len(s.state) |-> s.state[i] + d[i]],
       data |-> s.data]

NewSolver(time, state, radius, aspect_ratio) ==
  [time |-> time, state |-> state,
   data |-> [radius |-> radius, aspect_ratio |-> aspect_ratio]]

\* ------------------------------------------------------------ Spawn checks
\* mutant: a candidate exactly on the edge of the inset box is accepted
OutOfBoxX_Strict(x, radius) == x < -One + radius \/ x > One - radius

OutOfBoxX(x, radius) == x <= -One + radius \/ x >= One - radius

OutOfBoxY(y, radius, aspect_ratio) ==
  y <= -One + radius * aspect_ratio \/ y >= One - radius * aspect_ratio

\* (circle[0]-x)^2 + ((circle[1]-y)/aspect_ratio)^2 <= 4 radius^2,
\* multiplied through by aspect_ratio^2
Overlaps(cx, cy, x, y, radius, aspect_ratio) ==
  aspect_ratio * aspect_ratio * (cx - x) * (cx - x) + (cy - y) * (cy - y)
    <= 4 * radius * radius * aspect_ratio * aspect_ratio

\* lines 208-216: the number of circles of start_state for which the inner for
\* loop adds one to failed_circles
OverlapCount(state, x, y, radius, aspect_ratio) ==
  Cardinality({k \in 1..(Len(state) \div 2) :
                 Overlaps(state[2 * k - 1], state[2 * k], x, y, radius, aspect_ratio)})

Positions(particles) ==
  [i \in 1..(2 * Len(particles)) |->
     IF i % 2 = 1 THEN particles[(i + 1) \div 2].pos[1] ELSE particles[i \div 2].pos[2]]

\* mutant: only the first velocity component of each new particle is kept
Velocities_Half(particles) == [i \in 1..Len(particles) |-> particles[i].vel[1]]

Velocities(particles) ==
  [i \in 1..(2 * Len(particles)) |->
     IF i % 2 = 1 THEN particles[(i + 1) \div 2].vel[1] ELSE particles[i \div 2].vel[2]]

\* ------------------------------------------------- get_state interpolation
\* mutant: the weights the other way round, before*(1-frac) + after*frac
Interpolate_Forward(t, before, after) ==
  [den |-> after.time - before.time,
   num |-> [i \in 1..Len(after.state) |->
              before.state[i] * ((after.time - before.time) - (t - before.time))
              + after.state[i] * (t - before.time)]]

\* state_before * interp_t + state_after * (1 - interp_t) with
\* interp_t = (t - time_before) / (time_after - time_before); the result is
\* kept as numerators over the common denominator time_after - time_before
Interpolate(t, before, after) ==
  [den |-> after.time - before.time,
   num |-> [i \in 1..Len(after.state) |->
              before.state[i] * (t - before.time)
              + after.state[i] * ((after.time - before.time) - (t - before.time))]]

Verbatim(after) == [den |-> 1, num |-> after.state]

\* instances(): one Instance per chunk of two coordinates
InstanceCount(r) == Len(r.num) \div 2

\* ------------------------------------------------------------------- Init
NoPre == [c_np |-> 0, w_np |-> 0, velocities |-> <<>>, state_len |-> 0]

Init ==
  /\ display \in DisplayModes
  /\ c_radius \in Radii
  /\ deque = <<>>
  /\ lock = FALSE
  /\ lock_owner = "none"
  /\ reset_ch = <<>>
  /\ response_ch = <<>>
  /\ token = TRUE
  /\ closed = FALSE
  /\ c_pc = "idle"
  /\ c_time = InitialTime
  /\ c_aspect = InitialAspect
  /\ c_np = 0
  /\ scratchpad = <<>>
  /\ c_arg = 0
  /\ result = NoResult
  /\ ops = 0
  /\ w_pc = "head"
  /\ w_time = InitialTime
  /\ w_radius = c_radius
  /\ w_aspect = InitialAspect
  /\ w_np = 0
  /\ velocities = <<>>
  /\ solver = NewSolver(InitialTime, <<>>, c_radius, InitialAspect)
  /\ len = 0
  /\ msg = NoMsg
  /\ start_time = InitialTime
  /\ start_state = <<>>
  /\ idx = 0
  /\ failed_circles = 0
  /\ new_particles = <<>>
  /\ h_pre = NoPre
  /\ h_window = FALSE
  /\ h_seen = FALSE
  /\ h_received = 0
  /\ h_responded = 0
  /\ h_calls = <<>>
  /\ h_pushed = -1
  /\ h_owed = FALSE
  /\ h_avail = 0
  /\ h_nopick = FALSE
  /\ toml = <<>>
  /\ parsed = NotParsed
  /\ InitEncoder
  /\ InitMessager(Absent)


\* ===================================================== Worker: thread()
\* loop head: take the mutex; a set flag is cleared and the iteration is
\* abandoned, otherwise the next step is computed and pushed
WHead ==
  /\ w_pc = "head"
  /\ lock_owner = "none"
  /\ IF lock
     THEN /\ lock' = FALSE
          /\ h_seen' = (h_seen \/ h_window)
          /\ UNCHANGED <<deque, lock_owner, w_pc, w_time, velocities, solver, h_pushed>>
     ELSE LET next == EulerStep(solver, velocities)
          IN  /\ velocities' = FlipVelocities(solver.state, solver.data, velocities)
              /\ solver' = next
              /\ w_time' = next.time
              /\ deque' = Append(deque, [time |-> next.time, state |-> next.state])
              /\ h_pushed' = next.time
              /\ lock_owner' = "worker"
              /\ w_pc' = "len"
              /\ UNCHANGED <<lock, h_seen>>
  /\ UNCHANGED <<reset_ch, response_ch, token, closed, display, cvars,
                 w_radius, w_aspect, w_np, len, msg, start_time, start_state,
                 idx, failed_circles, new_particles,
                 h_pre, h_window, h_received, h_responded, h_calls, h_owed, h_avail, h_nopick>>
  /\ UNCHANGED xvars

\* self.deque.len(), then the guard is released
WLen ==
  /\ w_pc = "len"
  /\ len' = Len(deque)
  /\ lock_owner' = "none"
  /\ w_pc' = "recv"
  /\ UNCHANGED <<deque, lock, reset_ch, response_ch, token, closed, display, cvars,
                 w_time, w_radius, w_aspect, w_np, velocities, solver, msg,
                 start_time, start_state, idx, failed_circles, new_particles, hvars>>
  /\ h_owed' = (Len(deque) > Threshold)
  /\ UNCHANGED <<h_pushed, h_avail, h_nopick>>
  /\ UNCHANGED xvars

\* self.reset.try_recv(): Ok / Closed / Empty
WTryRecv ==
  /\ w_pc = "recv"
  /\ IF reset_ch # <<>>
     THEN /\ msg' = Head(reset_ch)
          /\ reset_ch' = Tail(reset_ch)
          /\ w_pc' = "handle"
          /\ h_received' = h_received + 1
          /\ h_pre' = [c_np |-> c_np, w_np |-> w_np, velocities |-> velocities,
                       state_len |-> Len(solver.state)]
     ELSE /\ w_pc' = IF closed THEN "done" ELSE "park"
          /\ UNCHANGED <<msg, reset_ch, h_received, h_pre>>
  /\ UNCHANGED <<deque, lock, lock_owner, response_ch, token, closed, display, cvars,
                 w_time, w_radius, w_aspect, w_np, velocities, solver, len,
                 start_time, start_state, idx, failed_circles, new_particles,
                 h_window, h_seen, h_responded, h_calls>>
  /\ UNCHANGED gvars
  /\ UNCHANGED xvars

\* let (start_time, mut start_state) = first snapshot of the queue, or
\* (self.time, zeros) when the queue is empty
\* mutant: the newest snapshot of the queue is taken
WSteal_Newest ==
  /\ w_pc = "handle"
  /\ IF deque # <<>>
     THEN /\ start_time' = Last(deque).time
          /\ start_state' = Last(deque).state
          /\ deque' = Take(deque, Len(deque) - 1)
     ELSE /\ start_time' = w_time
          /\ start_state' = Zeros(w_np * 2)
          /\ UNCHANGED deque
  /\ w_pc' = "apply"
  /\ UNCHANGED <<lock, lock_owner, reset_ch, response_ch, token, closed, display, cvars,
                 w_time, w_radius, w_aspect, w_np, velocities, solver, len, msg,
                 idx, failed_circles, new_particles, hvars>>
  /\ UNCHANGED gvars
  /\ UNCHANGED xvars

WSteal ==
  /\ w_pc = "handle"
  /\ IF deque # <<>>
     THEN /\ start_time' = Head(deque).time
          /\ start_state' = Head(deque).state
          /\ deque' = Tail(deque)
     ELSE /\ start_time' = w_time
          /\ start_state' = Zeros(w_np * 2)
          /\ UNCHANGED deque
  /\ w_pc' = "apply"
  /\ UNCHANGED <<lock, lock_owner, reset_ch, response_ch, token, closed, display, cvars,
                 w_time, w_radius, w_aspect, w_np, velocities, solver, len, msg,
                 idx, failed_circles, new_particles, hvars>>
  /\ UNCHANGED gvars
  /\ UNCHANGED xvars

\* mutant: the queue is not drained before the resume state is pushed
Rebuild_NoDrain(state, radius, aspect_ratio) ==
  /\ w_time' = start_time
  /\ deque' = Append(deque, [time |-> start_time, state |-> state])
  /\ solver' = NewSolver(start_time, state, radius, aspect_ratio)
  /\ w_pc' = "respond"
  /\ h_pushed' = start_time

\* mutant: the rebuild republishes the state the old solver had reached
Rebuild_OldState(state, radius, aspect_ratio) ==
  /\ w_time' = start_time
  /\ deque' = <<[time |-> start_time, state |-> solver.state]>>
  /\ solver' = NewSolver(start_time, state, radius, aspect_ratio)
  /\ w_pc' = "respond"
  /\ h_pushed' = start_time

\* lines 248-268: self.time = start_time, drain the queue, republish the
\* resume state and build a new solver from it
Rebuild(state, radius, aspect_ratio) ==
  /\ w_time' = start_time
  /\ deque' = <<[time |-> start_time, state |-> state]>>
  /\ solver' = NewSolver(start_time, state, radius, aspect_ratio)
  /\ w_pc' = "respond"
  /\ h_pushed' = start_time

\* mutant: the rebuild starts from a zeroed velocity vector
WReset_ZeroVelocities ==
  /\ w_pc = "apply"
  /\ msg.kind = "Reset"
  /\ w_radius' = msg.radius
  /\ w_aspect' = msg.aspect_ratio
  /\ velocities' = Zeros(w_np * 2)
  /\ Rebuild(start_state, msg.radius, msg.aspect_ratio)
  /\ h_window' = FALSE
  /\ UNCHANGED <<lock, lock_owner, reset_ch, response_ch, token, closed, display, cvars,
                 w_np, len, msg, start_time, start_state,
                 idx, failed_circles, new_particles,
                 h_pre, h_seen, h_received, h_responded, h_calls>>
  /\ UNCHANGED <<h_owed, h_avail, h_nopick>>
  /\ UNCHANGED xvars

\* mutant: the Reset arm does not store the aspect ratio of the command
WReset_KeepAspect ==
  /\ w_pc = "apply"
  /\ msg.kind = "Reset"
  /\ w_radius' = msg.radius
  /\ Rebuild(start_state, msg.radius, w_aspect)
  /\ h_window' = FALSE
  /\ UNCHANGED <<lock, lock_owner, reset_ch, response_ch, token, closed, display, cvars,
                 w_aspect, w_np, velocities, len, msg, start_time, start_state,
                 idx, failed_circles, new_particles,
                 h_pre, h_seen, h_received, h_responded, h_calls>>
  /\ UNCHANGED <<h_owed, h_avail, h_nopick>>
  /\ UNCHANGED xvars

WReset ==
  /\ w_pc = "apply"
  /\ msg.kind = "Reset"
  /\ w_radius' = msg.radius
  /\ w_aspect' = msg.aspect_ratio
  /\ Rebuild(start_state, msg.radius, msg.aspect_ratio)
  /\ h_window' = FALSE
  /\ UNCHANGED <<lock, lock_owner, reset_ch, response_ch, token, closed, display, cvars,
                 w_np, velocities, len, msg, start_time, start_state,
                 idx, failed_circles, new_particles,
                 h_pre, h_seen, h_received, h_responded, h_calls>>
  /\ UNCHANGED <<h_owed, h_avail, h_nopick>>
  /\ UNCHANGED xvars

\* mutant: popping more particles than exist removes none
PopCount_NoZero(np, num) == IF num > np THEN np ELSE np - num

PopCount(np, num) == IF num > np THEN 0 ELSE np - num

WPop ==
  /\ w_pc = "apply"
  /\ msg.kind = "Pop"
  /\ LET n == PopCount(w_np, msg.num)
     IN  /\ w_np' = n
         /\ velocities' = Take(velocities, n * 2)
         /\ start_state' = Take(start_state, n * 2)
         /\ Rebuild(Take(start_state, n * 2), w_radius, w_aspect)
  /\ UNCHANGED <<lock, lock_owner, reset_ch, response_ch, token, closed, display, cvars,
                 w_radius, w_aspect, len, msg, start_time,
                 idx, failed_circles, new_particles, hvars>>
  /\ UNCHANGED <<h_owed, h_avail, h_nopick>>
  /\ UNCHANGED xvars

WSpawnStart ==
  /\ w_pc = "apply"
  /\ msg.kind = "Spawn"
  /\ idx' = 0
  /\ failed_circles' = 0
  /\ new_particles' = <<>>
  /\ w_pc' = "sample"
  /\ UNCHANGED <<shared, cvars, w_time, w_radius, w_aspect, w_np, velocities, solver,
                 len, msg, start_time, start_state, hvars>>
  /\ UNCHANGED gvars
  /\ UNCHANGED xvars

\* one iteration of  while idx < num && failed_circles < 50.  The inner for
\* loop counts overlapping circles, but its `continue` only continues the
\* for loop: the candidate is pushed and failed_circles is zeroed afterwards
SampleStep(x, y, new_velocity) ==
  IF OutOfBoxX(x, w_radius)
  THEN [failed |-> failed_circles + 1, idx |-> idx, new |-> new_particles]
  ELSE IF OutOfBoxY(y, w_radius, w_aspect)
  THEN [failed |-> failed_circles + 1, idx |-> idx, new |-> new_particles]
  ELSE LET \* lines 208-216: the for loop only counts
           after_for == failed_circles
                        + OverlapCount(start_state, x, y, w_radius, w_aspect)
           \* line 219: failed_circles = 0, whatever after_for is
           after_push == 0
       IN  [failed |-> after_push, idx |-> idx + 1,
            new |-> Append(new_particles, [pos |-> <<x, y>>, vel |-> new_velocity])]

WSpawnSample ==
  /\ w_pc = "sample"
  /\ idx < msg.num /\ failed_circles < FailLimit
  /\ \E s \in Samples :
       LET r == SampleStep(s.pos[1], s.pos[2], s.vel)
       IN  /\ failed_circles' = r.failed
           /\ idx' = r.idx
           /\ new_particles' = r.new
  /\ UNCHANGED <<shared, cvars, w_pc, w_time, w_radius, w_aspect, w_np, velocities,
                 solver, len, msg, start_time, start_state, hvars>>
  /\ UNCHANGED gvars
  /\ UNCHANGED xvars

\* mutant: the candidates accepted before the failure are placed
WSpawnFail_Partial ==
  /\ w_pc = "sample"
  /\ ~(idx < msg.num /\ failed_circles < FailLimit)
  /\ failed_circles = FailLimit
  /\ Len(response_ch) < 1
  /\ response_ch' = Append(response_ch, FALSE)
  /\ h_responded' = h_responded + 1
  /\ w_pc' = "head"
  /\ msg' = NoMsg
  /\ start_time' = InitialTime /\ start_state' = <<>>
  /\ idx' = 0 /\ failed_circles' = 0
  /\ w_np' = w_np + idx
  /\ velocities' = velocities \o Velocities(new_particles)
  /\ UNCHANGED <<deque, lock, lock_owner, reset_ch, token, closed, display, cvars,
                 w_time, w_radius, w_aspect, solver, len, new_particles,
                 h_pre, h_window, h_seen, h_received, h_calls>>
  /\ UNCHANGED gvars
  /\ UNCHANGED xvars

\* mutant: the `continue` after send(false) is missing, the handler goes on
\* to its common tail and answers a second time
WSpawnFail_NoContinue ==
  /\ w_pc = "sample"
  /\ ~(idx < msg.num /\ failed_circles < FailLimit)
  /\ failed_circles = FailLimit
  /\ Len(response_ch) < 1
  /\ response_ch' = Append(response_ch, FALSE)
  /\ h_responded' = h_responded + 1
  /\ Rebuild(start_state, w_radius, w_aspect)
  /\ UNCHANGED <<lock, lock_owner, reset_ch, token, closed, display, cvars,
                 w_radius, w_aspect, w_np, velocities, len, msg, start_time, start_state,
                 idx, failed_circles, new_particles,
                 h_pre, h_window, h_seen, h_received, h_calls>>
  /\ UNCHANGED <<h_owed, h_avail, h_nopick>>
  /\ UNCHANGED xvars

\* if failed_circles == 50 { response.send(false); continue; }
WSpawnFail ==
  /\ w_pc = "sample"
  /\ ~(idx < msg.num /\ failed_circles < FailLimit)
  /\ failed_circles = FailLimit
  /\ Len(response_ch) < 1
  /\ response_ch' = Append(response_ch, FALSE)
  /\ h_responded' = h_responded + 1
  /\ w_pc' = "head"
  /\ msg' = NoMsg
  /\ start_time' = InitialTime /\ start_state' = <<>>
  /\ idx' = 0 /\ failed_circles' = 0
  /\ UNCHANGED <<deque, lock, lock_owner, reset_ch, token, closed, display, cvars,
                 w_time, w_radius, w_aspect, w_np, velocities, solver, len, new_particles,
                 h_pre, h_window, h_seen, h_received, h_calls>>
  /\ UNCHANGED gvars
  /\ UNCHANGED xvars

WSpawnApply ==
  /\ w_pc = "sample"
  /\ ~(idx < msg.num /\ failed_circles < FailLimit)
  /\ failed_circles # FailLimit
  /\ w_np' = w_np + msg.num
  /\ velocities' = velocities \o Velocities(new_particles)
  /\ start_state' = start_state \o Positions(new_particles)
  /\ Rebuild(start_state \o Positions(new_particles), w_radius, w_aspect)
  /\ UNCHANGED <<lock, lock_owner, reset_ch, response_ch, token, closed, display, cvars,
                 w_radius, w_aspect, len, msg, start_time,
                 idx, failed_circles, new_particles, hvars>>
  /\ UNCHANGED <<h_owed, h_avail, h_nopick>>
  /\ UNCHANGED xvars

\* self.response.send(true); the locals of the match arm go out of scope
WRespond ==
  /\ w_pc = "respond"
  /\ Len(response_ch) < 1
  /\ response_ch' = Append(response_ch, TRUE)
  /\ h_responded' = h_responded + 1
  /\ w_pc' = "park"
  /\ msg' = NoMsg
  /\ start_time' = InitialTime /\ start_state' = <<>>
  /\ idx' = 0 /\ failed_circles' = 0
  /\ UNCHANGED <<deque, lock, lock_owner, reset_ch, token, closed, display, cvars,
                 w_time, w_radius, w_aspect, w_np, velocities, solver, len, new_particles,
                 h_pre, h_window, h_seen, h_received, h_calls>>
  /\ UNCHANGED gvars
  /\ UNCHANGED xvars

\* if len > threshold { self.request.park() }: park blocks until the token
\* is available and consumes it
\* mutant: park returns at once and leaves the token alone
WPark_NoWait ==
  /\ w_pc = "park"
  /\ w_pc' = "head"
  /\ UNCHANGED <<deque, lock, lock_owner, reset_ch, response_ch, closed, display, cvars,
                 w_time, w_radius, w_aspect, w_np, velocities, solver, len, msg,
                 start_time, start_state, idx, failed_circles, new_particles, hvars>>
  /\ h_owed' = FALSE
  /\ UNCHANGED <<token, h_pushed, h_avail, h_nopick>>
  /\ UNCHANGED xvars

WPark ==
  /\ w_pc = "park"
  /\ IF len > Threshold
     THEN token /\ token' = FALSE
     ELSE UNCHANGED token
  /\ w_pc' = "head"
  /\ UNCHANGED <<deque, lock, lock_owner, reset_ch, response_ch, closed, display, cvars,
                 w_time, w_radius, w_aspect, w_np, velocities, solver, len, msg,
                 start_time, start_state, idx, failed_circles, new_particles, hvars>>
  /\ h_owed' = FALSE
  /\ UNCHANGED <<h_pushed, h_avail, h_nopick>>
  /\ UNCHANGED xvars

Worker ==
  \/ WHead \/ WLen \/ WTryRecv \/ WSteal \/ WReset \/ WPop
  \/ WSpawnStart \/ WSpawnSample \/ WSpawnFail \/ WSpawnApply \/ WRespond \/ WPark


\* ===================================================== Controller: Physics
\* the loop of reset(): the last snapshot of the queue with time <= self.time,
\* starting from (0.0, zeros)
\* mutant: the comparison with self.time is missing
RECURSIVE ResetPick_NoCompare(_, _, _)
ResetPick_NoCompare(q, time, pick) ==
  IF q = <<>> THEN pick
  ELSE ResetPick_NoCompare(Tail(q), time, Head(q))

RECURSIVE ResetPick(_, _, _)
ResetPick(q, time, pick) ==
  IF q = <<>> THEN pick
  ELSE IF Head(q).time <= time
       THEN ResetPick(Tail(q), time, Head(q))
       ELSE ResetPick(Tail(q), time, pick)

\* mutant: the comparison with the current ratio is missing
UpdateAspectRatio_Always(aspect_ratio) ==
  /\ c_pc = "idle"
  /\ ops < MaxOps
  /\ ops' = ops + 1
  /\ h_calls' = Append(h_calls, "update_aspect_ratio")
  /\ c_aspect' = aspect_ratio
  /\ c_pc' = "reset_lock"
  /\ result' = NoResult
  /\ h_pre' = NoPre
  /\ UNCHANGED <<shared, c_time, c_radius, c_np, scratchpad, c_arg, wvars,
                 h_window, h_seen, h_received, h_responded>>
  /\ UNCHANGED gvars
  /\ UNCHANGED xvars

\* update_aspect_ratio(aspect_ratio)
UpdateAspectRatio(aspect_ratio) ==
  /\ c_pc = "idle"
  /\ ops < MaxOps
  /\ ops' = ops + 1
  /\ h_calls' = Append(h_calls, "update_aspect_ratio")
  /\ IF aspect_ratio # c_aspect
     THEN /\ c_aspect' = aspect_ratio
          /\ c_pc' = "reset_lock"
     ELSE UNCHANGED <<c_aspect, c_pc>>
  /\ result' = NoResult
  /\ h_pre' = NoPre
  /\ UNCHANGED <<shared, c_time, c_radius, c_np, scratchpad, c_arg, wvars,
                 h_window, h_seen, h_received, h_responded>>
  /\ UNCHANGED gvars
  /\ UNCHANGED xvars

\* reset(): let mut lock = self.lock.lock().await; *lock = true;
ResetLock ==
  /\ c_pc = "reset_lock"
  /\ lock_owner = "none"
  /\ lock_owner' = "controller"
  /\ lock' = TRUE
  /\ c_pc' = "reset_drain"
  /\ h_window' = TRUE
  /\ h_seen' = FALSE
  /\ UNCHANGED <<deque, reset_ch, response_ch, token, closed, display,
                 c_time, c_radius, c_aspect, c_np, scratchpad, c_arg, result, ops,
                 wvars, h_pre, h_received, h_responded, h_calls>>
  /\ UNCHANGED gvars
  /\ UNCHANGED xvars

\* reset(): drain the queue, push the picked state, drop(lock)
ResetDrain ==
  /\ c_pc = "reset_drain"
  /\ LET pick == ResetPick(deque, c_time, [time |-> 0, state |-> Zeros(c_np * 2)])
     IN  /\ deque' = <<pick>>
         /\ c_time' = pick.time
  /\ lock_owner' = "none"
  /\ c_pc' = "reset_send"
  /\ UNCHANGED <<lock, reset_ch, response_ch, token, closed, display,
                 c_radius, c_aspect, c_np, scratchpad, c_arg, result, ops, wvars, hvars>>
  /\ h_nopick' = (\A i \in DOMAIN deque : deque[i].time > c_time)
  /\ UNCHANGED <<h_pushed, h_owed, h_avail>>
  /\ UNCHANGED xvars

ResetSend ==
  /\ c_pc = "reset_send"
  /\ w_pc # "failed"
  /\ Len(reset_ch) < 1
  /\ reset_ch' = Append(reset_ch, [kind |-> "Reset", time |-> c_time,
                                   radius |-> c_radius, aspect_ratio |-> c_aspect])
  /\ c_pc' = "reset_unpark"
  /\ UNCHANGED <<deque, lock, lock_owner, response_ch, token, closed, display,
                 c_time, c_radius, c_aspect, c_np, scratchpad, c_arg, result, ops,
                 wvars, hvars>>
  /\ UNCHANGED gvars
  /\ UNCHANGED xvars

ResetUnpark ==
  /\ c_pc = "reset_unpark"
  /\ token' = TRUE
  /\ c_pc' = "reset_recv"
  /\ UNCHANGED <<deque, lock, lock_owner, reset_ch, response_ch, closed, display,
                 c_time, c_radius, c_aspect, c_np, scratchpad, c_arg, result, ops,
                 wvars, hvars>>
  /\ UNCHANGED gvars
  /\ UNCHANGED xvars

ResetRecv ==
  /\ c_pc = "reset_recv"
  /\ response_ch # <<>>
  /\ response_ch' = Tail(response_ch)
  /\ result' = [kind |-> "reset"]
  /\ c_pc' = "idle"
  /\ UNCHANGED <<deque, lock, lock_owner, reset_ch, token, closed, display,
                 c_time, c_radius, c_aspect, c_np, scratchpad, c_arg, ops,
                 wvars, hvars>>
  /\ UNCHANGED gvars
  /\ UNCHANGED xvars

\* get_state(t): self.scratchpad.clear(); self.request.unpark();
GetStateCall(t) ==
  /\ c_pc = "idle"
  /\ ops < MaxOps
  /\ ops' = ops + 1
  /\ h_calls' = Append(h_calls, "get_state")
  /\ scratchpad' = <<>>
  /\ token' = TRUE
  /\ c_arg' = t
  /\ c_pc' = "gs_loop"
  /\ result' = NoResult
  /\ h_pre' = NoPre
  /\ UNCHANGED <<deque, lock, lock_owner, reset_ch, response_ch, closed, display,
                 c_time, c_radius, c_aspect, c_np, wvars,
                 h_window, h_seen, h_received, h_responded>>
  /\ h_avail' = Len(deque)
  /\ UNCHANGED <<h_pushed, h_owed, h_nopick>>
  /\ UNCHANGED xvars

\* one iteration of the steal loop of get_state, and on break the rest of it
\* mutant: the target is read but stays in the queue
GetStateSteal_KeepTarget ==
  /\ c_pc = "gs_loop"
  /\ IF deque = <<>>
     THEN /\ token' = TRUE
          /\ UNCHANGED <<deque, scratchpad, result, c_pc, h_avail>>
     ELSE /\ UNCHANGED token
          /\ IF Head(deque).time < c_arg
             THEN /\ deque' = Tail(deque)
                  /\ scratchpad' = Append(scratchpad, Head(deque))
                  /\ h_avail' = Max(0, h_avail - 1)
                  /\ UNCHANGED <<result, c_pc>>
             ELSE /\ result' = [kind |-> "state", t |-> c_arg,
                                target |-> Head(deque),
                                value |-> IF scratchpad = <<>>
                                          THEN Verbatim(Head(deque))
                                          ELSE Interpolate(c_arg, Last(scratchpad), Head(deque))]
                  /\ c_pc' = "idle"
                  /\ h_avail' = 0
                  /\ UNCHANGED <<deque, scratchpad>>
  /\ UNCHANGED <<lock, lock_owner, reset_ch, response_ch, closed, display,
                 c_time, c_radius, c_aspect, c_np, c_arg, ops, wvars, hvars,
                 h_pushed, h_owed, h_nopick>>
  /\ UNCHANGED xvars

GetStateSteal ==
  /\ c_pc = "gs_loop"
  /\ IF deque = <<>>
     THEN /\ token' = TRUE
          /\ UNCHANGED <<deque, scratchpad, result, c_pc, h_avail>>
     ELSE /\ deque' = Tail(deque)
          /\ UNCHANGED token
          /\ IF Head(deque).time < c_arg
             THEN /\ scratchpad' = Append(scratchpad, Head(deque))
                  /\ h_avail' = Max(0, h_avail - 1)
                  /\ UNCHANGED <<result, c_pc>>
             ELSE /\ result' = [kind |-> "state", t |-> c_arg,
                                target |-> Head(deque),
                                value |-> IF scratchpad = <<>>
                                          THEN Verbatim(Head(deque))
                                          ELSE Interpolate(c_arg, Last(scratchpad), Head(deque))]
                  /\ c_pc' = "idle"
                  /\ h_avail' = 0
                  /\ UNCHANGED scratchpad
  /\ UNCHANGED <<lock, lock_owner, reset_ch, response_ch, closed, display,
                 c_time, c_radius, c_aspect, c_np, c_arg, ops, wvars, hvars,
                 h_pushed, h_owed, h_nopick>>
  /\ UNCHANGED xvars

\* spawn(num): send Spawn(num)
SpawnSend(num) ==
  /\ c_pc = "idle"
  /\ ops < MaxOps
  /\ c_np + num <= MaxParticles
  /\ w_pc # "failed"
  /\ Len(reset_ch) < 1
  /\ ops' = ops + 1
  /\ h_calls' = Append(h_calls, "spawn")
  /\ c_arg' = num
  /\ reset_ch' = Append(reset_ch, [kind |-> "Spawn", num |-> num])
  /\ c_pc' = "spawn_unpark"
  /\ result' = NoResult
  /\ h_pre' = NoPre
  /\ UNCHANGED <<deque, lock, lock_owner, response_ch, token, closed, display,
                 c_time, c_radius, c_aspect, c_np, scratchpad, wvars,
                 h_window, h_seen, h_received, h_responded>>
  /\ UNCHANGED gvars
  /\ UNCHANGED xvars

\* mutant: spawn does not unpark the Worker after sending
SpawnUnpark_NoUnpark ==
  /\ c_pc = "spawn_unpark"
  /\ c_pc' = "spawn_recv"
  /\ UNCHANGED <<deque, lock, lock_owner, reset_ch, response_ch, token, closed, display,
                 c_time, c_radius, c_aspect, c_np, scratchpad, c_arg, result, ops,
                 wvars, hvars>>
  /\ UNCHANGED gvars
  /\ UNCHANGED xvars

SpawnUnpark ==
  /\ c_pc = "spawn_unpark"
  /\ token' = TRUE
  /\ c_pc' = "spawn_recv"
  /\ UNCHANGED <<deque, lock, lock_owner, reset_ch, response_ch, closed, display,
                 c_time, c_radius, c_aspect, c_np, scratchpad, c_arg, result, ops,
                 wvars, hvars>>
  /\ UNCHANGED gvars
  /\ UNCHANGED xvars

\* mutant: the count is incremented whatever the answer
SpawnRecv_Always ==
  /\ c_pc = "spawn_recv"
  /\ response_ch # <<>>
  /\ response_ch' = Tail(response_ch)
  /\ c_np' = c_np + c_arg
  /\ result' = [kind |-> "spawn", ok |-> Head(response_ch)]
  /\ c_pc' = "idle"
  /\ UNCHANGED <<deque, lock, lock_owner, reset_ch, token, closed, display,
                 c_time, c_radius, c_aspect, scratchpad, c_arg, ops, wvars, hvars>>
  /\ UNCHANGED gvars
  /\ UNCHANGED xvars

SpawnRecv ==
  /\ c_pc = "spawn_recv"
  /\ response_ch # <<>>
  /\ response_ch' = Tail(response_ch)
  /\ c_np' = IF Head(response_ch) THEN c_np + c_arg ELSE c_np
  /\ result' = [kind |-> "spawn", ok |-> Head(response_ch)]
  /\ c_pc' = "idle"
  /\ UNCHANGED <<deque, lock, lock_owner, reset_ch, token, closed, display,
                 c_time, c_radius, c_aspect, scratchpad, c_arg, ops, wvars, hvars>>
  /\ UNCHANGED gvars
  /\ UNCHANGED xvars

\* pop(num): send Pop(num)
PopSend(num) ==
  /\ c_pc = "idle"
  /\ ops < MaxOps
  /\ w_pc # "failed"
  /\ Len(reset_ch) < 1
  /\ ops' = ops + 1
  /\ h_calls' = Append(h_calls, "pop")
  /\ c_arg' = num
  /\ reset_ch' = Append(reset_ch, [kind |-> "Pop", num |-> num])
  /\ c_pc' = "pop_unpark"
  /\ result' = NoResult
  /\ h_pre' = NoPre
  /\ UNCHANGED <<deque, lock, lock_owner, response_ch, token, closed, display,
                 c_time, c_radius, c_aspect, c_np, scratchpad, wvars,
                 h_window, h_seen, h_received, h_responded>>
  /\ UNCHANGED gvars
  /\ UNCHANGED xvars

PopUnpark ==
  /\ c_pc = "pop_unpark"
  /\ token' = TRUE
  /\ c_pc' = "pop_recv"
  /\ UNCHANGED <<deque, lock, lock_owner, reset_ch, response_ch, closed, display,
                 c_time, c_radius, c_aspect, c_np, scratchpad, c_arg, result, ops,
                 wvars, hvars>>
  /\ UNCHANGED gvars
  /\ UNCHANGED xvars

PopRecv ==
  /\ c_pc = "pop_recv"
  /\ response_ch # <<>>
  /\ response_ch' = Tail(response_ch)
  /\ c_np' = IF c_np > c_arg THEN c_np - c_arg ELSE 0
  /\ result' = [kind |-> "pop", ok |-> Head(response_ch)]
  /\ c_pc' = "idle"
  /\ UNCHANGED <<deque, lock, lock_owner, reset_ch, token, closed, display,
                 c_time, c_radius, c_aspect, scratchpad, c_arg, ops, wvars, hvars>>
  /\ UNCHANGED gvars
  /\ UNCHANGED xvars

\* the Physics handle is dropped: reset_tx and response are dropped
Drop ==
  /\ c_pc = "idle"
  /\ closed' = TRUE
  /\ c_pc' = "dropped"
  /\ UNCHANGED <<deque, lock, lock_owner, reset_ch, response_ch, token, display,
                 c_time, c_radius, c_aspect, c_np, scratchpad, c_arg, result, ops,
                 wvars, hvars>>
  /\ UNCHANGED gvars
  /\ UNCHANGED xvars

Controller ==
  \/ \E a \in AspectRatios : UpdateAspectRatio(a)
  \/ ResetLock \/ ResetDrain \/ ResetSend \/ ResetUnpark \/ ResetRecv
  \/ \E t \in 0..MaxT : GetStateCall(t)
  \/ GetStateSteal
  \/ \E n \in 1..MaxParticles : SpawnSend(n)
  \/ SpawnUnpark \/ SpawnRecv
  \/ \E n \in 1..MaxPop : PopSend(n)
  \/ PopUnpark \/ PopRecv

Next == Worker \/ Controller

Spec == Init /\ [][Next]_vars

\* the same with the handle dropped at some point, the Worker thread being
\* scheduled fairly by the operating system
NextDrop == Next \/ Drop

DropSpec == Init /\ [][NextDrop]_vars /\ WF_vars(Worker)

\* the same with both threads scheduled fairly: the Worker thread by the
\* operating system, and the Controller while it is inside a call (the
\* caller awaits every call; when it makes the next call is up to it)
InCall == Controller /\ c_pc # "idle"

FairNext == Worker \/ (Controller /\ ops' <= MaxFairOps)

FairSpec == Init /\ [][FairNext]_vars /\ WF_vars(Worker) /\ WF_vars(InCall)

\* ------------------------------------------- construction: Physics::new
\* before Physics::new is called: no token, no thread
InitNew ==
  /\ display \in DisplayModes
  /\ c_radius \in Radii
  /\ deque = <<>>
  /\ lock = FALSE
  /\ lock_owner = "none"
  /\ reset_ch = <<>>
  /\ response_ch = <<>>
  /\ token = FALSE
  /\ closed = FALSE
  /\ c_pc = "new"
  /\ c_time = InitialTime
  /\ c_aspect = InitialAspect
  /\ c_np = 0
  /\ scratchpad = <<>>
  /\ c_arg = 0
  /\ result = NoResult
  /\ ops = 0
  /\ w_pc = "unspawned"
  /\ w_time = InitialTime
  /\ w_radius = c_radius
  /\ w_aspect = InitialAspect
  /\ w_np = 0
  /\ velocities = <<>>
  /\ solver = NewSolver(InitialTime, <<>>, c_radius, InitialAspect)
  /\ len = 0
  /\ msg = NoMsg
  /\ start_time = InitialTime
  /\ start_state = <<>>
  /\ idx = 0
  /\ failed_circles = 0
  /\ new_particles = <<>>
  /\ h_pre = NoPre
  /\ h_window = FALSE
  /\ h_seen = FALSE
  /\ h_received = 0
  /\ h_responded = 0
  /\ h_calls = <<>>
  /\ h_pushed = -1
  /\ h_owed = FALSE
  /\ h_avail = 0
  /\ h_nopick = FALSE
  /\ toml = <<>>
  /\ parsed = NotParsed
  /\ InitEncoder
  /\ InitMessager(Absent)

\* Physics::new: channels, request_unpark.unpark(), the thread is spawned,
\* Ok(Self { .. }) is returned
New ==
  /\ c_pc = "new"
  /\ token' = TRUE
  /\ w_pc' = "build"
  /\ c_pc' = "idle"
  /\ UNCHANGED <<deque, lock, lock_owner, reset_ch, response_ch, closed, display,
                 c_time, c_radius, c_aspect, c_np, scratchpad, c_arg, result, ops,
                 w_time, w_radius, w_aspect, w_np, velocities, solver, len, msg,
                 start_time, start_state, idx, failed_circles, new_particles,
                 hvars, gvars>>
  /\ UNCHANGED xvars

\* the prologue of thread(): Euler::new_dyn(..)?. .. .solve(data)?  Either
\* outcome of the builder chain is possible; on Err the `?` returns from
\* thread() and the expect in create() panics in the Worker thread
WBuild ==
  /\ w_pc = "build"
  /\ \E ok \in BOOLEAN :
       IF ok
       THEN /\ solver' = NewSolver(w_time, Zeros(w_np * 2), w_radius, w_aspect)
            /\ w_pc' = "head"
       ELSE /\ w_pc' = "failed"
            /\ UNCHANGED solver
  /\ UNCHANGED <<shared, cvars, w_time, w_radius, w_aspect, w_np, velocities,
                 len, msg, start_time, start_state, idx, failed_circles,
                 new_particles, hvars, gvars>>
  /\ UNCHANGED xvars

\* reset_tx.send(..).await.expect(..) in reset(), spawn() and pop() when the
\* Worker thread has panicked and its receiver is gone
SendPanics ==
  /\ c_pc \in {"idle", "reset_send"}
  /\ w_pc = "failed"
  /\ c_pc' = "panicked"
  /\ UNCHANGED <<shared, c_time, c_radius, c_aspect, c_np, scratchpad, c_arg,
                 result, ops, wvars, hvars, gvars>>
  /\ UNCHANGED xvars

NextNew == Next \/ New \/ WBuild \/ SendPanics

NewSpec == InitNew /\ [][NextNew]_vars

\* ------------------------------------- particle_derivative on its own
\* coordinates on and next to the edges of the box inset by radius 2, and
\* the centre
DerivCoords == {-38, -37, 0, 37, 38}

DerivVelocities == {-1, 2}

\* a solver over 1..MaxParticles particles with any of these coordinates and
\* velocity components
InitDeriv ==
  /\ display \in DisplayModes
  /\ c_radius \in Radii
  /\ c_aspect \in AspectRatios
  /\ c_np \in 1..MaxParticles
  /\ deque = <<>>
  /\ lock = FALSE
  /\ lock_owner = "none"
  /\ reset_ch = <<>>
  /\ response_ch = <<>>
  /\ token = TRUE
  /\ closed = FALSE
  /\ c_pc = "idle"
  /\ c_time = InitialTime
  /\ scratchpad = <<>>
  /\ c_arg = 0
  /\ result = NoResult
  /\ ops = 0
  /\ w_pc = "head"
  /\ w_time = InitialTime
  /\ w_radius = c_radius
  /\ w_aspect = c_aspect
  /\ w_np = c_np
  /\ velocities \in [1..(2 * c_np) -> DerivVelocities]
  /\ \E y \in [1..(2 * c_np) -> DerivCoords] :
       solver = NewSolver(InitialTime, y, c_radius, c_aspect)
  /\ len = 0
  /\ msg = NoMsg
  /\ start_time = InitialTime
  /\ start_state = <<>>
  /\ idx = 0
  /\ failed_circles = 0
  /\ new_particles = <<>>
  /\ h_pre = NoPre
  /\ h_window = FALSE
  /\ h_seen = FALSE
  /\ h_received = 0
  /\ h_responded = 0
  /\ h_calls = <<>>
  /\ h_pushed = -1
  /\ h_owed = FALSE
  /\ h_avail = 0
  /\ h_nopick = FALSE
  /\ toml = <<>>
  /\ parsed = NotParsed
  /\ InitEncoder
  /\ InitMessager(Absent)

\* one solver.next(): particle_derivative is called once on the solver's
\* state and the step is taken with what it returns
Evaluate ==
  /\ solver.time < InitialTime + MaxEval * TimeStep
  /\ velocities' = FlipVelocities(solver.state, solver.data, velocities)
  /\ solver' = EulerStep(solver, velocities)
  /\ UNCHANGED <<shared, cvars, w_pc, w_time, w_radius, w_aspect, w_np, len, msg,
                 start_time, start_state, idx, failed_circles, new_particles,
                 hvars, gvars>>
  /\ UNCHANGED xvars

DerivNext == Evaluate

DerivSpec == InitDeriv /\ [][DerivNext]_vars

\* ------------------------------------------- the Worker left to itself
\* after Physics::new, in either mode, when the Controller makes no call
InitQuiet ==
  /\ display \in BOOLEAN
  /\ c_radius \in Radii
  /\ deque = <<>>
  /\ lock = FALSE
  /\ lock_owner = "none"
  /\ reset_ch = <<>>
  /\ response_ch = <<>>
  /\ token = TRUE
  /\ closed = FALSE
  /\ c_pc = "idle"
  /\ c_time = InitialTime
  /\ c_aspect = InitialAspect
  /\ c_np = 0
  /\ scratchpad = <<>>
  /\ c_arg = 0
  /\ result = NoResult
  /\ ops = 0
  /\ w_pc = "head"
  /\ w_time = InitialTime
  /\ w_radius = c_radius
  /\ w_aspect = InitialAspect
  /\ w_np = 0
  /\ velocities = <<>>
  /\ solver = NewSolver(InitialTime, <<>>, c_radius, InitialAspect)
  /\ len = 0
  /\ msg = NoMsg
  /\ start_time = InitialTime
  /\ start_state = <<>>
  /\ idx = 0
  /\ failed_circles = 0
  /\ new_particles = <<>>
  /\ h_pre = NoPre
  /\ h_window = FALSE
  /\ h_seen = FALSE
  /\ h_received = 0
  /\ h_responded = 0
  /\ h_calls = <<>>
  /\ h_pushed = -1
  /\ h_owed = FALSE
  /\ h_avail = 0
  /\ h_nopick = FALSE
  /\ toml = <<>>
  /\ parsed = NotParsed
  /\ InitEncoder
  /\ InitMessager(Absent)

\* the steps of thread() that need no command
QuietNext == WHead \/ WLen \/ WTryRecv \/ WPark

QuietSpec == InitQuiet /\ [][QuietNext]_vars /\ WF_vars(QuietNext)

\* =================================================== input.rs: Inputs::new
\* A document is a sequence of lines.  The lines are the ones the tests of
\* input.rs write: the two headers, the three keys of the [simulation] table
\* with a string value, and the input  checkbox = "CHECKBOX".
Headers == {"[simulation]", "[[block]]"}
MetadataKeys == {"name", "description", "author"}
Lines == Headers \cup MetadataKeys \cup {"checkbox"}

RECURSIVE SeqsUpTo(_, _)
SeqsUpTo(S, n) ==
  IF n = 0 THEN {<<>>}
  ELSE LET shorter == SeqsUpTo(S, n - 1)
       IN  shorter \cup {Append(d, l) : d \in {e \in shorter : Len(e) = n - 1}, l \in S}

Documents == SeqsUpTo(Lines, MaxLines)

None == <<>>
Some(v) == <<v>>

\* the string a key line assigns
Value(key) ==
  CASE key = "name" -> "test"
    [] key = "description" -> "testing"
    [] key = "author" -> "tester"
    [] OTHER -> "CHECKBOX"

\* what the TOML reader has built before any line: an empty root table
EmptyDocument ==
  [ok |-> TRUE, cur |-> "root", root |-> {}, simulation |-> None, block |-> <<>>]

\* one line read by toml::from_str: a header opens a table (a table may be
\* opened once, an array of tables grows by one), a key goes into the table
\* that is open (a key may be set once per table)
ReadLine(t, line) ==
  IF ~t.ok THEN t
  ELSE IF line = "[simulation]"
  THEN IF t.simulation # None THEN [t EXCEPT !.ok = FALSE]
       ELSE [t EXCEPT !.cur = "simulation", !.simulation = Some({})]
  ELSE IF line = "[[block]]"
  THEN [t EXCEPT !.cur = "block", !.block = Append(t.block, {})]
  ELSE IF t.cur = "root"
  THEN IF line \in t.root THEN [t EXCEPT !.ok = FALSE]
       ELSE [t EXCEPT !.root = t.root \cup {line}]
  ELSE IF t.cur = "simulation"
  THEN IF line \in t.simulation[1] THEN [t EXCEPT !.ok = FALSE]
       ELSE [t EXCEPT !.simulation = Some(t.simulation[1] \cup {line})]
  ELSE IF line \in t.block[Len(t.block)] THEN [t EXCEPT !.ok = FALSE]
       ELSE [t EXCEPT !.block[Len(t.block)] = t.block[Len(t.block)] \cup {line}]

RECURSIVE ReadLines(_, _)
ReadLines(t, lines) ==
  IF lines = <<>> THEN t ELSE ReadLines(ReadLine(t, Head(lines)), Tail(lines))

TomlError == [kind |-> "Err", error |-> "TomlError"]

\* enum Input read from a string: the unit variant CHECKBOX is the only one
\* a string names, and the untagged GROUP wants a table
InputOk(key) == Value(key) = "CHECKBOX"

\* struct InputBlock: _name and _size are optional, every other key of the
\* table is flattened into inputs and has to be an Input
BlockOk(table) == \A key \in table : InputOk(key)

InputBlock(table) == [name |-> None, size |-> None, inputs |-> table]

\* struct InputMetadata: name is a String and has to be there, description
\* and author are Options; keys the struct does not name are skipped
\* mutant: name has a default
InputMetadata_DefaultName(table) ==
  [ok |-> TRUE,
   name |-> IF "name" \in table THEN Value("name") ELSE "",
   description |-> IF "description" \in table THEN Some(Value("description")) ELSE None,
   author |-> IF "author" \in table THEN Some(Value("author")) ELSE None]

InputMetadata(table) ==
  [ok |-> "name" \in table,
   name |-> IF "name" \in table THEN Value("name") ELSE "",
   description |-> IF "description" \in table THEN Some(Value("description")) ELSE None,
   author |-> IF "author" \in table THEN Some(Value("author")) ELSE None]

\* struct Inputs: simulation has to be there, blocks is the array "block"
\* and defaults to the empty Vec; root keys the struct does not name are
\* skipped
Deserialize(t) ==
  IF ~t.ok \/ t.simulation = None THEN TomlError
  ELSE LET simulation == InputMetadata(t.simulation[1])
       IN  IF ~simulation.ok \/ \E i \in DOMAIN t.block : ~BlockOk(t.block[i])
           THEN TomlError
           ELSE [kind |-> "Ok",
                 simulation |-> [name |-> simulation.name,
                                 description |-> simulation.description,
                                 author |-> simulation.author],
                 blocks |-> [i \in DOMAIN t.block |-> InputBlock(t.block[i])]]

\* Inputs::new(data): toml::from_str(data).map_err(Into::into)
Inputs_new(data) == Deserialize(ReadLines(EmptyDocument, data))

InitInputs ==
  /\ display \in DisplayModes
  /\ c_radius \in Radii
  /\ deque = <<>>
  /\ lock = FALSE
  /\ lock_owner = "none"
  /\ reset_ch = <<>>
  /\ response_ch = <<>>
  /\ token = TRUE
  /\ closed = FALSE
  /\ c_pc = "idle"
  /\ c_time = InitialTime
  /\ c_aspect = InitialAspect
  /\ c_np = 0
  /\ scratchpad = <<>>
  /\ c_arg = 0
  /\ result = NoResult
  /\ ops = 0
  /\ w_pc = "head"
  /\ w_time = InitialTime
  /\ w_radius = c_radius
  /\ w_aspect = InitialAspect
  /\ w_np = 0
  /\ velocities = <<>>
  /\ solver = NewSolver(InitialTime, <<>>, c_radius, InitialAspect)
  /\ len = 0
  /\ msg = NoMsg
  /\ start_time = InitialTime
  /\ start_state = <<>>
  /\ idx = 0
  /\ failed_circles = 0
  /\ new_particles = <<>>
  /\ h_pre = NoPre
  /\ h_window = FALSE
  /\ h_seen = FALSE
  /\ h_received = 0
  /\ h_responded = 0
  /\ h_calls = <<>>
  /\ h_pushed = -1
  /\ h_owed = FALSE
  /\ h_avail = 0
  /\ h_nopick = FALSE
  /\ toml \in Documents
  /\ parsed = NotParsed
  /\ InitEncoder
  /\ InitMessager(Absent)

\* the call Inputs::new(toml)
InputsNew ==
  /\ parsed = NotParsed
  /\ parsed' = Inputs_new(toml)
  /\ UNCHANGED <<toml, evars, mvars, shared, cvars, wvars, hvars, gvars>>

InputsNext == InputsNew

InputsSpec == InitInputs /\ [][InputsNext]_vars

\* ================================== simulation/encoder.rs and run_headless
FrameCapacity == 8     \* channel::bounded(8)

\* what encoder.encode makes of a picture: the planes of the converted frame
\* with the timestamp set from frame_idx
Nal(frame, timestamp) == [frame |-> frame, timestamp |-> timestamp]

\* run_headless: one pass of  while time <= duration: render and
\* send_frame.send(out_img), which waits while the channel is full
SendFrame ==
  /\ p_pc = "frames"
  /\ e_sent < MaxFrames
  /\ Len(e_frames) < FrameCapacity
  /\ e_frames' = Append(e_frames, e_sent + 1)
  /\ e_sent' = e_sent + 1
  /\ UNCHANGED <<e_finished, p_pc, e_pc, frame_idx, e_delayed, e_encoded, e_out>>
  /\ UNCHANGED <<toml, parsed, mvars, shared, cvars, wvars, hvars, gvars>>

\* run_headless: the loop is over, finished.send(())
SendFinished ==
  /\ p_pc = "frames"
  /\ e_finished' = Append(e_finished, "()")
  /\ p_pc' = "join"
  /\ UNCHANGED <<e_frames, e_sent, e_pc, frame_idx, e_delayed, e_encoded, e_out>>
  /\ UNCHANGED <<toml, parsed, mvars, shared, cvars, wvars, hvars, gvars>>

\* run_headless: handle.join()
Join ==
  /\ p_pc = "join"
  /\ e_pc = "done"
  /\ p_pc' = "done"
  /\ UNCHANGED <<e_frames, e_finished, e_sent, e_pc, frame_idx, e_delayed, e_encoded, e_out>>
  /\ UNCHANGED <<toml, parsed, mvars, shared, cvars, wvars, hvars, gvars>>

\* select!, arm recv(self.channel): the frame is converted, copied into the
\* picture with timestamp frame_idx and passed to encoder.encode, which
\* returns a NAL unit that is written, or None when it holds the picture back
RecvFrame ==
  /\ e_pc = "loop"
  /\ e_frames # <<>>
  /\ e_frames' = Tail(e_frames)
  /\ e_encoded' = Append(e_encoded, Head(e_frames))
  /\ frame_idx' = frame_idx + 1
  /\ \E emitted \in BOOLEAN :
       LET held == Append(e_delayed, Nal(Head(e_frames), frame_idx))
       IN  IF emitted
           THEN /\ e_out' = Append(e_out, Head(held))
                /\ e_delayed' = Tail(held)
           ELSE /\ e_delayed' = held
                /\ UNCHANGED e_out
  /\ UNCHANGED <<e_finished, e_sent, p_pc, e_pc>>
  /\ UNCHANGED <<toml, parsed, mvars, shared, cvars, wvars, hvars, gvars>>

\* select!, arm recv(self.finished): break 'outer.  select! takes any arm
\* that is ready, whatever the other channel holds
RecvFinished ==
  /\ e_pc = "loop"
  /\ e_finished # <<>>
  /\ e_finished' = Tail(e_finished)
  /\ e_pc' = "flush"
  /\ UNCHANGED <<e_frames, e_sent, p_pc, frame_idx, e_delayed, e_encoded, e_out>>
  /\ UNCHANGED <<toml, parsed, mvars, shared, cvars, wvars, hvars, gvars>>

\* while self.encoder.delayed_frames(): encode(None) and write what it returns
Flush ==
  /\ e_pc = "flush"
  /\ IF e_delayed # <<>>
     THEN /\ e_out' = Append(e_out, Head(e_delayed))
          /\ e_delayed' = Tail(e_delayed)
          /\ UNCHANGED e_pc
     ELSE /\ e_pc' = "done"
          /\ UNCHANGED <<e_out, e_delayed>>
  /\ UNCHANGED <<e_frames, e_finished, e_sent, p_pc, frame_idx, e_encoded>>
  /\ UNCHANGED <<toml, parsed, mvars, shared, cvars, wvars, hvars, gvars>>

EncoderNext == SendFrame \/ SendFinished \/ Join \/ RecvFrame \/ RecvFinished \/ Flush

EncoderSpec == Init /\ [][EncoderNext]_vars

\* ============================ particles/src/lib.rs: PhysicsMessager, Particles
ChannelCapacity == 10  \* channel::bounded(10), both channels
SpawnFailLimit == 50   \* Particles::spawn: failed_circles < 50
SliderUnit == 2        \* a slider is an f64: 2 is the value 1.0
Cells == {1, 2}        \* places a circle can be in without touching another place's circle
OutOfBox == 0          \* a sampled position that fails the bounds tests of Particles::spawn

Message(kind, arg, id) == [kind |-> kind, arg |-> arg, id |-> id]

Slider(v) == [kind |-> "SLIDER", v |-> v]

Checkbox == [kind |-> "CHECKBOX"]

SliderValues == (0 - SliderUnit)..(SliderUnit * MaxSlider)

InitialInputs == {Absent, Checkbox, Slider(0)}

\* what the UI may have put under "controls.count" since the last render
UserInputs(input) ==
  IF input = Absent THEN {Absent} ELSE {input} \cup {Slider(v) : v \in SliderValues}

\* val as usize: the fraction is dropped, a negative value becomes 0
AsUsize(v) == IF v < 0 THEN 0 ELSE v \div SliderUnit

\* val as f64
AsF64(n) == n * SliderUnit

\* physics.push_circle(circle, velocity): false when the circle would touch one
\* that is already there
PushCircle(cs, circle) ==
  IF \E i \in DOMAIN cs : cs[i] = circle
  THEN [circles |-> cs, resp |-> FALSE]
  ELSE [circles |-> Append(cs, circle), resp |-> TRUE]

\* physics.simulate(t): advances the particles, their number stays
Simulate(cs, t) == cs

\* mutant: the arm for Pop answers with the length
Handled_PopAnswers(m, cs) ==
  CASE m.kind = "Simulate" -> [circles |-> Simulate(cs, m.arg), resp |-> NoMsg]
    [] m.kind = "GetState" -> [circles |-> cs, resp |-> Message("State", cs, m.id)]
    [] m.kind = "PushCircle" ->
         [circles |-> PushCircle(cs, m.arg).circles,
          resp |-> Message("PushCircleResponse", PushCircle(cs, m.arg).resp, m.id)]
    [] m.kind = "Pop" -> [circles |-> Take(cs, PopCount(Len(cs), m.arg)),
                          resp |-> Message("Length", Len(cs), m.id)]
    [] m.kind = "AspectRatio" -> [circles |-> cs, resp |-> NoMsg]
    [] m.kind = "GetLength" -> [circles |-> cs, resp |-> Message("Length", Len(cs), m.id)]
    [] OTHER -> [circles |-> cs, resp |-> NoMsg]

\* the match of physics_thread: the particles afterwards and the response
\* the arm sends, NoMsg for an arm that sends none
Handled(m, cs) ==
  CASE m.kind = "Simulate" -> [circles |-> Simulate(cs, m.arg), resp |-> NoMsg]
    [] m.kind = "GetState" -> [circles |-> cs, resp |-> Message("State", cs, m.id)]
    [] m.kind = "PushCircle" ->
         [circles |-> PushCircle(cs, m.arg).circles,
          resp |-> Message("PushCircleResponse", PushCircle(cs, m.arg).resp, m.id)]
    [] m.kind = "Pop" -> [circles |-> Take(cs, PopCount(Len(cs), m.arg)), resp |-> NoMsg]
    [] m.kind = "AspectRatio" -> [circles |-> cs, resp |-> NoMsg]
    [] m.kind = "GetLength" -> [circles |-> cs, resp |-> Message("Length", Len(cs), m.id)]
    [] OTHER -> [circles |-> cs, resp |-> NoMsg]

\* ----------------------------------------------------------- physics_thread
\* main_rx.recv() returned Ok(msg); the arm for msg runs up to its send
ThreadRecv ==
  /\ t_pc = "recv"
  /\ pm_send # <<>>
  /\ pm_send' = Tail(pm_send)
  /\ circles' = Handled(Head(pm_send), circles).circles
  /\ t_resp' = Handled(Head(pm_send), circles).resp
  /\ t_pc' = IF t_resp' = NoMsg THEN "recv" ELSE "send"
  /\ UNCHANGED <<pm_recv, pm_send_closed, pm_recv_closed>>
  /\ UNCHANGED <<r_pc, r_input, r_physics_len, r_val, s_num, s_idx, s_failed, r_req, r_resp, renders>>
  /\ h_done' = IF pm_send_closed THEN h_done + 1 ELSE h_done
  /\ UNCHANGED h_left
  /\ UNCHANGED <<toml, parsed, evars, shared, cvars, wvars, hvars, gvars>>

\* worker_tx.send(response): an Err on the closed channel is logged
ThreadSend ==
  /\ t_pc = "send"
  /\ IF pm_recv_closed
     THEN UNCHANGED pm_recv
     ELSE /\ Len(pm_recv) < ChannelCapacity
          /\ pm_recv' = Append(pm_recv, t_resp)
  /\ t_resp' = NoMsg
  /\ t_pc' = "recv"
  /\ UNCHANGED <<pm_send, pm_send_closed, pm_recv_closed, circles>>
  /\ UNCHANGED <<r_pc, r_input, r_physics_len, r_val, s_num, s_idx, s_failed, r_req, r_resp, renders>>
  /\ UNCHANGED <<h_left, h_done>>
  /\ UNCHANGED <<toml, parsed, evars, shared, cvars, wvars, hvars, gvars>>

\* main_rx.recv() returned Err: the channel is closed and empty
ThreadEnd ==
  /\ t_pc = "recv"
  /\ pm_send = <<>>
  /\ pm_send_closed
  /\ t_pc' = "ended"
  /\ UNCHANGED <<pm_send, pm_recv, pm_send_closed, pm_recv_closed, t_resp, circles>>
  /\ UNCHANGED <<r_pc, r_input, r_physics_len, r_val, s_num, s_idx, s_failed, r_req, r_resp, renders>>
  /\ UNCHANGED <<h_left, h_done>>
  /\ UNCHANGED <<toml, parsed, evars, shared, cvars, wvars, hvars, gvars>>

Thread == ThreadRecv \/ ThreadSend \/ ThreadEnd

\* ------------------------------------------ PhysicsMessager, Particles
\* self.send.send(m).await
SendMessage(m) ==
  /\ ~pm_send_closed
  /\ Len(pm_send) < ChannelCapacity
  /\ pm_send' = Append(pm_send, m)

\* the first half of len, get_state and push_circle: the request is sent
Request(kind, arg) ==
  /\ r_req' = r_req + 1
  /\ SendMessage(Message(kind, arg, r_req'))

\* render starts with the inputs the UI hands it:
\* self.physics_thread.update_aspect_ratio(renderer.aspect_ratio)
RenderUpdateAspectRatio ==
  /\ r_pc = "idle"
  /\ renders < MaxRenders
  /\ \E input \in UserInputs(r_input) : r_input' = input
  /\ \E a \in AspectRatios : SendMessage(Message("AspectRatio", a, 0))
  /\ r_pc' = "simulate"
  /\ UNCHANGED <<pm_recv, pm_send_closed, pm_recv_closed, t_pc, t_resp, circles>>
  /\ UNCHANGED <<r_physics_len, r_val, s_num, s_idx, s_failed, r_req, r_resp, renders>>
  /\ UNCHANGED <<h_left, h_done>>
  /\ UNCHANGED <<toml, parsed, evars, shared, cvars, wvars, hvars, gvars>>

\* self.physics_thread.simulate(renderer.time)
RenderSimulate ==
  /\ r_pc = "simulate"
  /\ SendMessage(Message("Simulate", renders, 0))
  /\ r_pc' = IF r_input = Absent THEN "get_state" ELSE "len"
  /\ UNCHANGED <<pm_recv, pm_send_closed, pm_recv_closed, t_pc, t_resp, circles>>
  /\ UNCHANGED <<r_input, r_physics_len, r_val, s_num, s_idx, s_failed, r_req, r_resp, renders>>
  /\ UNCHANGED <<h_left, h_done>>
  /\ UNCHANGED <<toml, parsed, evars, shared, cvars, wvars, hvars, gvars>>

\* len(): the request is sent, at line 345 and again at line 364
LenSend ==
  /\ r_pc \in {"len", "len_again"}
  /\ Request("GetLength", 0)
  /\ r_pc' = IF r_pc = "len" THEN "len_recv" ELSE "len_again_recv"
  /\ UNCHANGED <<pm_recv, pm_send_closed, pm_recv_closed, t_pc, t_resp, circles>>
  /\ UNCHANGED <<r_input, r_physics_len, r_val, s_num, s_idx, s_failed, r_resp, renders>>
  /\ UNCHANGED <<h_left, h_done>>
  /\ UNCHANGED <<toml, parsed, evars, shared, cvars, wvars, hvars, gvars>>

\* the response each call accepts
Expected(kind) ==
  CASE kind = "GetLength" -> "Length"
    [] kind = "GetState" -> "State"
    [] kind = "PushCircle" -> "PushCircleResponse"

\* self.recv.recv().await in the call that sent a request of this kind
Receive(kind) ==
  /\ pm_recv # <<>>
  /\ pm_recv' = Tail(pm_recv)
  /\ r_resp' = [got |-> Head(pm_recv), for |-> Message(kind, 0, r_req)]

\* the rest of render's slider block once physics_len is known
SliderBlock(physics_len) ==
  LET v == IF r_input.kind = "SLIDER" THEN AsUsize(r_input.v) ELSE physics_len
  IN  /\ r_physics_len' = physics_len
      /\ r_val' = v
      /\ r_input' = Slider(AsF64(v))
      /\ IF v < physics_len
         THEN r_pc' = "pop" /\ UNCHANGED <<s_num, s_idx, s_failed>>
         ELSE IF v > physics_len
              THEN /\ r_pc' = "spawn"
                   /\ s_num' = v - physics_len
                   /\ s_idx' = 0
                   /\ s_failed' = 0
              ELSE r_pc' = "get_state" /\ UNCHANGED <<s_num, s_idx, s_failed>>

\* len(): the response arrives; render goes on with it
LenRecv ==
  /\ r_pc \in {"len_recv", "len_again_recv"}
  /\ Receive("GetLength")
  /\ IF Head(pm_recv).kind # Expected("GetLength")
     THEN /\ r_pc' = "panic"
          /\ UNCHANGED <<r_input, r_physics_len, r_val, s_num, s_idx, s_failed>>
     ELSE IF r_pc = "len_recv"
          THEN SliderBlock(Head(pm_recv).arg)
          ELSE /\ r_input' = IF Head(pm_recv).arg = r_physics_len
                             THEN Slider(AsF64(r_physics_len))
                             ELSE r_input
               /\ r_pc' = "get_state"
               /\ UNCHANGED <<r_physics_len, r_val, s_num, s_idx, s_failed>>
  /\ UNCHANGED <<pm_send, pm_send_closed, pm_recv_closed, t_pc, t_resp, circles>>
  /\ UNCHANGED <<r_req, renders>>
  /\ UNCHANGED <<h_left, h_done>>
  /\ UNCHANGED <<toml, parsed, evars, shared, cvars, wvars, hvars, gvars>>

\* Ordering::Less: self.physics_thread.pop(physics_len - val)
RenderPop ==
  /\ r_pc = "pop"
  /\ SendMessage(Message("Pop", r_physics_len - r_val, 0))
  /\ r_pc' = "get_state"
  /\ UNCHANGED <<pm_recv, pm_send_closed, pm_recv_closed, t_pc, t_resp, circles>>
  /\ UNCHANGED <<r_input, r_physics_len, r_val, s_num, s_idx, s_failed, r_req, r_resp, renders>>
  /\ UNCHANGED <<h_left, h_done>>
  /\ UNCHANGED <<toml, parsed, evars, shared, cvars, wvars, hvars, gvars>>

\* Particles::spawn: one pass of the while loop up to the push_circle call
SpawnSample ==
  /\ r_pc = "spawn"
  /\ IF s_idx < s_num /\ s_failed < SpawnFailLimit
     THEN \E circle \in Cells \cup {OutOfBox} :
            IF circle = OutOfBox
            THEN /\ s_failed' = s_failed + 1
                 /\ UNCHANGED <<pm_send, r_req, r_pc>>
            ELSE /\ Request("PushCircle", circle)
                 /\ r_pc' = "push_recv"
                 /\ UNCHANGED s_failed
     ELSE /\ r_pc' = "len_again"
          /\ UNCHANGED <<pm_send, r_req, s_failed>>
  /\ UNCHANGED <<pm_recv, pm_send_closed, pm_recv_closed, t_pc, t_resp, circles>>
  /\ UNCHANGED <<r_input, r_physics_len, r_val, s_num, s_idx, r_resp, renders>>
  /\ UNCHANGED <<h_left, h_done>>
  /\ UNCHANGED <<toml, parsed, evars, shared, cvars, wvars, hvars, gvars>>

\* push_circle: the response arrives; the loop counts it
PushCircleRecv ==
  /\ r_pc = "push_recv"
  /\ Receive("PushCircle")
  /\ IF Head(pm_recv).kind # Expected("PushCircle")
     THEN r_pc' = "panic" /\ UNCHANGED <<s_idx, s_failed>>
     ELSE /\ r_pc' = "spawn"
          /\ IF Head(pm_recv).arg
             THEN s_failed' = 0 /\ s_idx' = s_idx + 1
             ELSE s_failed' = s_failed + 1 /\ UNCHANGED s_idx
  /\ UNCHANGED <<pm_send, pm_send_closed, pm_recv_closed, t_pc, t_resp, circles>>
  /\ UNCHANGED <<r_input, r_physics_len, r_val, s_num, r_req, renders>>
  /\ UNCHANGED <<h_left, h_done>>
  /\ UNCHANGED <<toml, parsed, evars, shared, cvars, wvars, hvars, gvars>>

\* self.physics_thread.get_state(renderer.time): the request is sent
RenderGetStateSend ==
  /\ r_pc = "get_state"
  /\ Request("GetState", renders)
  /\ r_pc' = "get_state_recv"
  /\ UNCHANGED <<pm_recv, pm_send_closed, pm_recv_closed, t_pc, t_resp, circles>>
  /\ UNCHANGED <<r_input, r_physics_len, r_val, s_num, s_idx, s_failed, r_resp, renders>>
  /\ UNCHANGED <<h_left, h_done>>
  /\ UNCHANGED <<toml, parsed, evars, shared, cvars, wvars, hvars, gvars>>

\* get_state: the response arrives, render draws and returns
RenderGetStateRecv ==
  /\ r_pc = "get_state_recv"
  /\ Receive("GetState")
  /\ IF Head(pm_recv).kind # Expected("GetState")
     THEN r_pc' = "panic" /\ UNCHANGED renders
     ELSE r_pc' = "idle" /\ renders' = renders + 1
  /\ UNCHANGED <<pm_send, pm_send_closed, pm_recv_closed, t_pc, t_resp, circles>>
  /\ UNCHANGED <<r_input, r_physics_len, r_val, s_num, s_idx, s_failed, r_req>>
  /\ UNCHANGED <<h_left, h_done>>
  /\ UNCHANGED <<toml, parsed, evars, shared, cvars, wvars, hvars, gvars>>

\* mutant: drop closes the response channel only
MessagerDrop_KeepSend ==
  /\ r_pc \in {"idle", "simulate", "len", "get_state"}
  /\ pm_recv_closed' = TRUE
  /\ r_pc' = "dropped"
  /\ UNCHANGED <<pm_send, pm_recv, pm_send_closed, t_pc, t_resp, circles>>
  /\ UNCHANGED <<r_input, r_physics_len, r_val, s_num, s_idx, s_failed, r_req, r_resp, renders>>
  /\ h_left' = Len(pm_send)
  /\ UNCHANGED h_done
  /\ UNCHANGED <<toml, parsed, evars, shared, cvars, wvars, hvars, gvars>>

\* impl Drop for PhysicsMessager: the Particles value goes away between two
\* renders, or with the render future while no call is waiting for a response
MessagerDrop ==
  /\ r_pc \in {"idle", "simulate", "len", "get_state"}
  /\ pm_send_closed' = TRUE
  /\ pm_recv_closed' = TRUE
  /\ r_pc' = "dropped"
  /\ UNCHANGED <<pm_send, pm_recv, t_pc, t_resp, circles>>
  /\ UNCHANGED <<r_input, r_physics_len, r_val, s_num, s_idx, s_failed, r_req, r_resp, renders>>
  /\ h_left' = Len(pm_send)
  /\ UNCHANGED h_done
  /\ UNCHANGED <<toml, parsed, evars, shared, cvars, wvars, hvars, gvars>>

Render ==
  \/ RenderUpdateAspectRatio
  \/ RenderSimulate
  \/ LenSend
  \/ LenRecv
  \/ RenderPop
  \/ SpawnSample
  \/ PushCircleRecv
  \/ RenderGetStateSend
  \/ RenderGetStateRecv

\* Particles::new has returned; "controls.count" is a slider, another input or missing
InitParticles ==
  /\ display \in DisplayModes
  /\ c_radius \in Radii
  /\ deque = <<>>
  /\ lock = FALSE
  /\ lock_owner = "none"
  /\ reset_ch = <<>>
  /\ response_ch = <<>>
  /\ token = TRUE
  /\ closed = FALSE
  /\ c_pc = "idle"
  /\ c_time = InitialTime
  /\ c_aspect = InitialAspect
  /\ c_np = 0
  /\ scratchpad = <<>>
  /\ c_arg = 0
  /\ result = NoResult
  /\ ops = 0
  /\ w_pc = "head"
  /\ w_time = InitialTime
  /\ w_radius = c_radius
  /\ w_aspect = InitialAspect
  /\ w_np = 0
  /\ velocities = <<>>
  /\ solver = NewSolver(InitialTime, <<>>, c_radius, InitialAspect)
  /\ len = 0
  /\ msg = NoMsg
  /\ start_time = InitialTime
  /\ start_state = <<>>
  /\ idx = 0
  /\ failed_circles = 0
  /\ new_particles = <<>>
  /\ h_pre = NoPre
  /\ h_window = FALSE
  /\ h_seen = FALSE
  /\ h_received = 0
  /\ h_responded = 0
  /\ h_calls = <<>>
  /\ h_pushed = -1
  /\ h_owed = FALSE
  /\ h_avail = 0
  /\ h_nopick = FALSE
  /\ toml = <<>>
  /\ parsed = NotParsed
  /\ InitEncoder
  /\ \E input \in InitialInputs : InitMessager(input)

MessagerNext == Thread \/ Render \/ MessagerDrop

MessagerSpec == InitParticles /\ [][MessagerNext]_vars

\* the thread is scheduled; nothing makes the renderer call render again
MessagerFairSpec == InitParticles /\ [][MessagerNext]_vars /\ WF_vars(Thread)

TypeOK ==
  /\ lock \in BOOLEAN /\ token \in BOOLEAN /\ closed \in BOOLEAN
  /\ lock_owner \in {"none", "worker", "controller"}
  /\ Len(reset_ch) <= 1 /\ Len(response_ch) <= 1
  /\ c_np \in 0..MaxParticles /\ w_np \in 0..MaxParticles


\* ================================================================ claims

SnapshotLengths == {Len(deque[i].state) : i \in DOMAIN deque} \cup {Len(solver.state)}

\* the Worker sends a response in this step
Responds(b) == response_ch = <<>> /\ response_ch' = <<b>>

\* C1: a spawn that is answered false leaves everything as it was when the
\* command was received: the Worker's particle count and velocity vector,
\* the state length of every snapshot that can still be retrieved (those in
\* the queue and those the solver will produce), and len() once spawn has
\* returned false.
C1_SpawnAtomicity ==
  /\ [][Responds(FALSE) =>
          /\ w_np' = h_pre.w_np
          /\ velocities' = h_pre.velocities
          /\ SnapshotLengths' = {h_pre.state_len}]_vars
  /\ []((result.kind = "spawn" /\ ~result.ok) =>
          /\ c_np = h_pre.c_np
          /\ w_np = h_pre.w_np
          /\ SnapshotLengths = {h_pre.state_len})

\* a spawn has returned false while a particle spawned earlier exists
C1_Witness ==
  /\ result.kind = "spawn" /\ ~result.ok
  /\ h_calls = <<"spawn", "get_state", "spawn">>
  /\ c_np = 1
  /\ velocities # <<>>

\* C2: get_state returns exactly len() instances, after any calls.
C2_StateMatchesLen ==
  result.kind = "state" =>
    /\ InstanceCount(result.value) = c_np
    /\ Len(result.value.num) = 2 * c_np

\* the first get_state after an aspect-ratio reset, with a particle present
C2_Witness ==
  /\ result.kind = "state"
  /\ h_calls = <<"spawn", "update_aspect_ratio", "get_state">>
  /\ c_aspect # InitialAspect
  /\ c_np > 0
  /\ InstanceCount(result.value) = c_np


\* C3: pop(n) is always answered with success and leaves
\* len() = max(0, prior_len - n); the Worker clamps the same way and keeps
\* the first max(0, prior - n) particles of its velocity vector and of its
\* resume state (the republished snapshot and the new solver's state).
C3_Pop ==
  /\ [][(msg.kind = "Pop" /\ w_pc = "apply" /\ w_pc' = "respond") =>
          LET n == Max(0, h_pre.w_np - msg.num)
          IN  /\ w_np' = n
              /\ velocities' = SubSeq(h_pre.velocities, 1, 2 * n)
              /\ Len(deque') = 1
              /\ deque'[1].state = SubSeq(start_state, 1, 2 * n)
              /\ solver'.state = SubSeq(start_state, 1, 2 * n)]_vars
  /\ [](c_pc = "pop_recv" => (response_ch # <<>> => Head(response_ch)))
  /\ [](result.kind = "pop" =>
          /\ result.ok
          /\ c_np = Max(0, h_pre.c_np - c_arg)
          /\ w_np = c_np)

\* pop(1) has returned with two particles before it: the first one is kept
C3_Witness ==
  /\ result.kind = "pop"
  /\ h_pre.w_np = 2 /\ c_arg = 1
  /\ c_np = 1
  /\ Len(velocities) = 2


Contained(state, radius, aspect_ratio) ==
  \A i \in DOMAIN state :
    IF i % 2 = 1
    THEN -One + radius <= state[i] /\ state[i] <= One - radius
    ELSE /\ -One + radius * aspect_ratio <= state[i]
         /\ state[i] <= One - radius * aspect_ratio

\* the Worker publishes a step in this transition (lines 140-142)
Publishes == w_pc = "head" /\ w_pc' = "len"

\* C4: every snapshot the Worker publishes lies inside the box inset by the
\* radius, for the radius and aspect ratio active at the time.
C4_Containment ==
  [][Publishes => Contained(Last(deque').state, w_radius, w_aspect)]_vars

\* particle k of a state vector, as <<x, y>>
Particle(state, k) == <<state[2 * k - 1], state[2 * k]>>

Apart(p, q, radius, aspect_ratio) ==
  ~Overlaps(p[1], p[2], q[1], q[2], radius, aspect_ratio)

\* C5: when Spawn(n) succeeds, each of the n new particles is farther than
\* 2 * radius (aspect-corrected on y) from every particle that was in the
\* resume state before and from every other new particle.
C5_NoOverlapAtSpawn ==
  (w_pc = "respond" /\ msg.kind = "Spawn") =>
    \A k \in (w_np - msg.num + 1)..w_np : \A j \in 1..w_np :
      j # k => Apart(Particle(solver.state, k), Particle(solver.state, j),
                     w_radius, w_aspect)


\* value (a vector of fractions num/den) equals the vector of fractions v/d
SameValue(value, v, d) ==
  /\ Len(value.num) = Len(v)
  /\ \A i \in DOMAIN v : value.num[i] * d = v[i] * value.den

\* before*frac + after*(1-frac) with frac = (t - tb)/(ta - tb), times (ta - tb)
Weighted(t, before, after) ==
  [i \in DOMAIN after.state |->
     before.state[i] * (t - before.time)
     + after.state[i] * (after.time - t)]

\* the Controller takes a snapshot off the queue in this step of get_state
Removes == c_pc = "gs_loop" /\ deque # <<>> /\ deque' = Tail(deque)

\* C6: get_state(t) removes snapshots until the first one with time >= t, the
\* target; having removed no older snapshot it returns the target verbatim,
\* otherwise before*frac + after*(1-frac) for the last removed snapshot
\* before, the target after and frac = (t - before_time)/(after_time - before_time).
C6_Interpolation ==
  /\ [][Removes =>
          IF Head(deque).time < c_arg
          THEN c_pc' = "gs_loop" /\ scratchpad' = Append(scratchpad, Head(deque))
          ELSE c_pc' = "idle" /\ scratchpad' = scratchpad
               /\ result'.target = Head(deque)]_vars
  /\ [](c_pc = "gs_loop" => \A i \in DOMAIN scratchpad : scratchpad[i].time < c_arg)
  /\ [](result.kind = "state" =>
          /\ result.target.time >= result.t
          /\ \A i \in DOMAIN scratchpad : scratchpad[i].time < result.t
          /\ IF scratchpad = <<>>
             THEN SameValue(result.value, result.target.state, 1)
             ELSE SameValue(result.value,
                            Weighted(result.t, Last(scratchpad), result.target),
                            result.target.time - Last(scratchpad).time))

\* get_state has returned a value strictly between two different snapshots
C6_Witness ==
  /\ result.kind = "state"
  /\ scratchpad # <<>>
  /\ Last(scratchpad).time < result.t /\ result.t < result.target.time
  /\ Last(scratchpad).state # result.target.state
  /\ result.value.den = 2

\* C7: get_state queried exactly at the time of a snapshot returns that
\* snapshot's positions, whether or not the snapshot before it was removed by
\* the same call.
C7_ExactQuery ==
  (result.kind = "state" /\ result.target.time = result.t) =>
    SameValue(result.value, result.target.state, 1)


\* the Worker applies the Reset command in this step
AppliesReset == w_pc = "apply" /\ msg.kind = "Reset" /\ w_pc' = "respond"

\* C8: between the moment the Controller sets the reset flag and the moment
\* the Worker applies the Reset command the Worker publishes no snapshot,
\* and it applies the command only after it has seen the flag.
C8_ResetHandshake ==
  [][/\ h_window => ~Publishes
     /\ AppliesReset => h_seen]_vars

\* the Worker holds a received command it has not answered yet
Handling == w_pc \in {"handle", "apply", "sample", "respond"}

InFlight == Len(reset_ch) + (IF Handling THEN 1 ELSE 0) + Len(response_ch)

\* C9: at most one command is in flight (in the command channel, being
\* handled, or answered and unread), and the Worker has sent exactly one
\* response for every command it has received and finished handling.
C9_OneInFlight ==
  /\ InFlight <= 1
  /\ h_received - h_responded = (IF Handling THEN 1 ELSE 0)

\* the third command is being handled, the first two having been answered
C9_Witness ==
  /\ h_received = 3 /\ h_responded = 2
  /\ w_pc = "sample"
  /\ InFlight = 1

\* C10: once the handle is dropped the Worker eventually leaves its loop.
C10_DropTerminates == closed ~> (w_pc = "done")


\* the Worker republishes its resume state in this step (lines 248-258)
Republishes == w_pc \in {"apply", "sample"} /\ w_pc' = "respond"

\* C11: every snapshot the Worker pushes, a step or the snapshot republished
\* while a command is handled, has a timestamp strictly greater than the one
\* it pushed before.
C11_IncreasingTimestamps ==
  [][(Publishes \/ Republishes) => Last(deque').time > h_pushed]_vars

\* C12: a publish after which the measured depth exceeded the threshold is
\* followed by a call of park before the next publish, whatever the Worker
\* does in between.
C12_ParkBeforeNextPublish == [][Publishes => ~h_owed]_vars

\* the open box inset by the radius is not empty, and even its opposite
\* corners are within 2 * radius of each other
OnlyOneFits(radius, aspect_ratio) ==
  /\ -One + radius < One - radius
  /\ -One + radius * aspect_ratio < One - radius * aspect_ratio
  /\ Overlaps(-One + radius, -One + radius * aspect_ratio,
              One - radius, One - radius * aspect_ratio, radius, aspect_ratio)

\* C13: with a radius so large that only one particle fits in the box,
\* spawn(n) for n >= 2 returns false and leaves len() unchanged.
C13_SpawnSaturation ==
  (result.kind = "spawn" /\ c_arg >= 2 /\ OnlyOneFits(c_radius, c_aspect)) =>
    /\ ~result.ok
    /\ c_np = h_pre.c_np

\* C14: after a successful Spawn(n) each of the n new particles lies strictly
\* inside the box inset by the Worker's radius (times the aspect ratio on y).
C14_SpawnInsideBox ==
  (w_pc = "respond" /\ msg.kind = "Spawn") =>
    \A k \in (w_np - msg.num + 1)..w_np :
      LET p == Particle(solver.state, k)
      IN  /\ -One + w_radius < p[1] /\ p[1] < One - w_radius
          /\ -One + w_radius * w_aspect < p[2] /\ p[2] < One - w_radius * w_aspect

\* a Spawn(2) has succeeded after the aspect ratio was changed
C14_Witness ==
  /\ w_pc = "respond" /\ msg.kind = "Spawn"
  /\ msg.num = 2 /\ w_np = 2
  /\ w_aspect # InitialAspect
  /\ Particle(solver.state, 1) # Particle(solver.state, 2)


\* C15: update_aspect_ratio(a) with a equal to the Controller's ratio changes
\* nothing: no command, no flag, no unpark, the queue and every Controller
\* field as before.  With a different a it stores a and runs the Reset
\* handshake: flag set under the mutex, Reset(time, radius, a) sent, Worker
\* unparked, and on return the Worker has taken over the configuration.
C15_UpdateAspectRatio ==
  /\ [][\A a \in AspectRatios : UpdateAspectRatio(a) =>
          IF a = c_aspect
          THEN UNCHANGED <<shared, c_pc, c_time, c_radius, c_aspect, c_np,
                           scratchpad, c_arg, wvars>>
          ELSE /\ c_aspect' = a
               /\ c_pc' = "reset_lock"
               /\ UNCHANGED <<c_time, c_radius, c_np>>]_vars
  /\ [][(c_pc = "reset_lock" /\ c_pc' # c_pc) =>
          lock' /\ lock_owner' = "controller"]_vars
  /\ [][(c_pc = "reset_send" /\ c_pc' # c_pc) =>
          reset_ch' = <<[kind |-> "Reset", time |-> c_time,
                         radius |-> c_radius, aspect_ratio |-> c_aspect]>>]_vars
  /\ [][(c_pc = "reset_unpark" /\ c_pc' # c_pc) => token']_vars
  /\ [](c_pc \in {"reset_lock", "reset_drain", "reset_send", "reset_unpark",
                  "reset_recv"} => Last(h_calls) = "update_aspect_ratio")
  /\ [](result.kind = "reset" => (w_aspect = c_aspect /\ w_radius = c_radius))

\* update_aspect_ratio with the ratio a handshake has just stored has
\* returned at once, particles and snapshots being present
C15_Witness ==
  /\ h_calls = <<"spawn", "update_aspect_ratio", "update_aspect_ratio">>
  /\ c_pc = "idle" /\ result = NoResult
  /\ c_aspect # InitialAspect /\ w_aspect = c_aspect
  /\ c_np > 0 /\ deque # <<>>

\* C16: applying a Reset command stores the radius and aspect ratio of the
\* command and leaves the Worker's particle count and its velocity vector,
\* signs included, as they were when the command was received.
C16_ResetKeepsParticles ==
  /\ [][AppliesReset =>
          /\ w_radius' = msg.radius /\ w_aspect' = msg.aspect_ratio
          /\ w_np' = w_np /\ velocities' = velocities]_vars
  /\ []((w_pc = "respond" /\ msg.kind = "Reset") =>
          /\ w_np = h_pre.w_np
          /\ velocities = h_pre.velocities
          /\ Len(solver.state) = 2 * w_np)

\* a Reset with a new aspect ratio has been applied while a velocity
\* component carries a sign flipped at the wall
C16_Witness ==
  /\ w_pc = "respond" /\ msg.kind = "Reset"
  /\ w_aspect # InitialAspect
  /\ \E i \in DOMAIN velocities : velocities[i] = -2

\* C17: get_state removes only snapshots that were in the queue when it was
\* called: it does not wait for the Worker to publish one.
C17_GetStateNeverWaits == [][Removes => h_avail > 0]_vars

\* C20: at the loop head, where the next step evaluates the derivative, the
\* velocity vector and the solver's state vector both have 2 * num_particles
\* components.
C20_VelocityLength ==
  w_pc = "head" =>
    /\ Len(velocities) = Len(solver.state)
    /\ Len(solver.state) = 2 * w_np

\* the Worker is back at the loop head after spawn(2), pop(1) and a spawn
\* that failed
C20_Witness ==
  /\ w_pc = "head" /\ ~lock
  /\ h_calls = <<"spawn", "pop", "spawn">>
  /\ response_ch = <<FALSE>>
  /\ w_np = 1 /\ Len(velocities) = 2


\* Physics::new has returned a handle
HasHandle == c_pc # "new"

\* C18: when the construction of the integrator has failed, Physics::new has
\* not handed a Physics handle to its caller.
C18_ConstructionFailureReported == w_pc = "failed" => ~HasHandle

\* the solver takes a step, evaluating the derivative, in this transition
Evaluates == solver'.time = solver.time + TimeStep

\* C19: one evaluation of particle_derivative on y negates the x velocity of
\* a particle iff its x is <= -1 + radius or >= 1 - radius, its y velocity
\* iff its y is <= -1 + radius * aspect_ratio or >= 1 - radius * aspect_ratio,
\* returns the velocity components after the negations, and changes neither
\* the length of the velocity vector nor the radius and aspect ratio; the
\* negated vector is the one the next evaluation starts from.
C19_Derivative ==
  [][Evaluates =>
       LET y == solver.state
           radius == solver.data.radius
           aspect_ratio == solver.data.aspect_ratio
           dy == particle_derivative(y, solver.data, velocities)
       IN  /\ Len(velocities') = Len(velocities)
           /\ Len(dy) = Len(y)
           /\ \A i \in 0..((Len(y) \div 2) - 1) :
                /\ velocities'[2 * i + 1] =
                     IF \/ y[2 * i + 1] <= -One + radius
                        \/ y[2 * i + 1] >= One - radius
                     THEN -velocities[2 * i + 1]
                     ELSE velocities[2 * i + 1]
                /\ velocities'[2 * i + 2] =
                     IF \/ y[2 * i + 2] <= -One + radius * aspect_ratio
                        \/ y[2 * i + 2] >= One - radius * aspect_ratio
                     THEN -velocities[2 * i + 2]
                     ELSE velocities[2 * i + 2]
                /\ dy[2 * i + 1] = velocities'[2 * i + 1]
                /\ dy[2 * i + 2] = velocities'[2 * i + 2]
           /\ solver'.data = solver.data
           /\ solver'.state = [i \in 1..Len(y) |-> y[i] + dy[i]]
           /\ UNCHANGED <<w_radius, w_aspect, w_np>>]_vars

\* a particle that started on the right edge moving right has been turned
\* round by the first evaluation and has kept moving left in the second, and
\* the second particle, inside the top edge for aspect ratio 1 but not for 2,
\* has done the same in y
C19_Witness ==
  /\ solver.time = InitialTime + 2 * TimeStep
  /\ solver.data.radius = 2 /\ solver.data.aspect_ratio = 2
  /\ Len(solver.state) = 4
  /\ solver.state[1] = 34 /\ velocities[1] = -2
  /\ solver.state[4] = 33 /\ velocities[4] = -2

\* the Controller is not inside spawn, pop or update_aspect_ratio
NoCommandInFlight == c_pc \in {"idle", "gs_loop"}

\* C21: whenever no command is in flight, len() equals the Worker's particle
\* count; spawn adds n to len() exactly when the answer it reads is success,
\* and the Worker has added n exactly when it answers Spawn(n) with success.
C21_CountsAgree ==
  /\ [](NoCommandInFlight => c_np = w_np)
  /\ [][(c_pc = "spawn_recv" /\ c_pc' = "idle") =>
          c_np' = (IF Head(response_ch) THEN c_np + c_arg ELSE c_np)]_vars
  /\ [][(msg.kind = "Spawn" /\ Responds(TRUE)) => w_np = h_pre.w_np + msg.num]_vars
  /\ [][(msg.kind = "Spawn" /\ Responds(FALSE)) => w_np = h_pre.w_np]_vars

\* spawn(2), pop(1) and a spawn that failed have returned
C21_Witness ==
  /\ h_calls = <<"spawn", "pop", "spawn">>
  /\ c_pc = "idle"
  /\ result.kind = "spawn" /\ ~result.ok
  /\ c_np = 1 /\ w_np = 1
  /\ h_responded = 3 /\ response_ch = <<>>

\* the [simulation] table of the document and a name in it: the header is
\* there and a name line follows it before the next header
HasNamedSimulation(d) ==
  \E i, j \in DOMAIN d :
    /\ i < j
    /\ d[i] = "[simulation]"
    /\ d[j] = "name"
    /\ \A k \in (i + 1)..(j - 1) : d[k] \notin Headers

OnlyName == <<"[simulation]", "name">>

\* C22: Inputs::new returns an error for a document without a [simulation]
\* table that has a name, the empty document among them; for the document
\* that holds only [simulation] with a name it returns the inputs with that
\* name, no description, no author and an empty list of blocks.
C22_InputsNew ==
  parsed # NotParsed =>
    /\ ~HasNamedSimulation(toml) => parsed.kind = "Err"
    /\ toml = OnlyName =>
         parsed = [kind |-> "Ok",
                   simulation |-> [name |-> "test", description |-> None, author |-> None],
                   blocks |-> <<>>]

\* Inputs::new has returned for the document with only [simulation] and a name
C22_Witness == toml = OnlyName /\ parsed.kind = "Ok"

\* the Controller is inside spawn, pop or update_aspect_ratio
InCommandCall == c_pc \notin {"idle", "gs_loop"}

\* the Worker is blocked in park(): the depth it measured is over the
\* threshold and there is no token
Parked == w_pc = "park" /\ len > Threshold /\ ~token

\* C23: under fair scheduling a command sent by spawn, pop or
\* update_aspect_ratio is eventually received by the Worker, a received command
\* is eventually answered, and the call eventually returns, wherever the
\* Worker is when the command is sent (parked, or about to park).
C23_NoLostWakeup ==
  /\ (reset_ch # <<>>) ~> (reset_ch = <<>> /\ Handling)
  /\ Handling ~> (response_ch # <<>>)
  /\ InCommandCall ~> (c_pc = "idle")

\* a command has just been sent to a Worker that is blocked in park()
C23_Witness == reset_ch # <<>> /\ Parked /\ c_pc = "spawn_unpark"

\* get_state is called in this step
CallsGetState == c_pc = "idle" /\ c_pc' = "gs_loop"

\* C24: under fair scheduling every get_state(t) eventually returns: the call
\* leaves a token for the Worker, whose published timestamps grow while the
\* call waits, until a snapshot with timestamp >= t is there to return.
C24_GetStateReturns ==
  /\ (c_pc = "gs_loop") ~> (c_pc = "idle" /\ result.kind = "state" /\ result.target.time >= c_arg)
  /\ [][CallsGetState => token']_vars
  /\ [][(c_pc = "gs_loop" /\ Publishes) => w_time' > w_time]_vars

\* get_state(t) waits while the Worker is in park() with a measured depth over
\* the threshold and every queued snapshot is older than t
C24_Witness ==
  /\ c_pc = "gs_loop"
  /\ w_pc = "park" /\ len > Threshold
  /\ deque # <<>>
  /\ \A i \in DOMAIN deque : deque[i].time < c_arg

\* C25: in every reachable state the queue holds at most threshold + 4
\* snapshots, whatever calls were made (failed spawns included).
C25_QueueBounded == Len(deque) <= Threshold + 4

\* the Worker takes its resume state off the queue in this step (lines 148-158)
TakesResumeState == w_pc = "handle" /\ w_pc' = "apply"

\* the snapshots of queue q with a timestamp at or before time
AtOrBefore(q, time) == {i \in DOMAIN q : q[i].time <= time}

\* C26: the state the Worker resumes from when it handles Spawn or Pop is the
\* latest queued snapshot with a timestamp at or before its current time, so
\* handling the command does not take the simulation back to an older
\* snapshot of the queue.
C26_ResumesFromLatest ==
  [][(TakesResumeState /\ msg.kind \in {"Spawn", "Pop"} /\ AtOrBefore(deque, w_time) # {}) =>
       \E i \in AtOrBefore(deque, w_time) :
         /\ start_time' = deque[i].time /\ start_state' = deque[i].state
         /\ \A j \in AtOrBefore(deque, w_time) : deque[j].time <= deque[i].time]_vars

\* reset() drains the queue and pushes its pick in this step (lines 346-364)
DrainsForReset == c_pc = "reset_drain" /\ c_pc' = "reset_send"

\* the Reset of the running handshake has been neither taken up nor answered
ResetPending ==
  /\ c_pc \in {"reset_send", "reset_unpark", "reset_recv"}
  /\ w_pc \notin {"apply", "respond"}
  /\ response_ch = <<>>

\* C27: in a Reset handshake the Controller republishes the queued snapshot
\* with the greatest timestamp at or before its logical time, when there is
\* one; that snapshot stays first in the queue until the Worker takes it as
\* its resume state, and the Worker rebuilds its solver from it.
C27_ResetResumeState ==
  /\ [][(DrainsForReset /\ AtOrBefore(deque, c_time) # {}) =>
          \E i \in AtOrBefore(deque, c_time) :
            /\ deque' = <<deque[i]>>
            /\ \A j \in AtOrBefore(deque, c_time) : deque[j].time <= deque[i].time]_vars
  /\ [][ResetPending =>
          IF TakesResumeState
          THEN /\ deque # <<>>
               /\ start_time' = Head(deque).time /\ start_state' = Head(deque).state
          ELSE deque' # <<>> /\ Head(deque') = Head(deque)]_vars
  /\ [][AppliesReset => solver'.time = start_time /\ solver'.state = start_state]_vars

\* the Worker has rebuilt from a snapshot of a particle that the second
\* update_aspect_ratio found in the queue
C27_Witness ==
  /\ h_calls = <<"update_aspect_ratio", "spawn", "update_aspect_ratio">>
  /\ w_pc = "respond" /\ msg.kind = "Reset"
  /\ solver.state # Zeros(Len(solver.state))
  /\ solver.state = start_state

\* the Controller is inside update_aspect_ratio, in its reset()
InReset ==
  c_pc \in {"reset_lock", "reset_drain", "reset_send", "reset_unpark", "reset_recv"}

\* C28: the reset flag is true only while a Reset handshake is in progress:
\* it is false whenever update_aspect_ratio is not executing, and false when
\* the Reset command is sent.
C28_FlagOnlyDuringReset ==
  /\ lock => InReset
  /\ (reset_ch # <<>> /\ Head(reset_ch).kind = "Reset") => ~lock

\* C29: when reset() finds no queued snapshot with a timestamp at or before
\* the Controller's time, it republishes zeros of length 2 * len() at
\* timestamp 0, and the Worker rebuilds from that: its solver restarts with
\* every particle at the origin and time 0.
C29_ResetToOrigin ==
  /\ [][(DrainsForReset /\ AtOrBefore(deque, c_time) = {}) =>
          /\ deque' = <<[time |-> 0, state |-> Zeros(2 * c_np)]>>
          /\ c_time' = 0]_vars
  /\ [][(AppliesReset /\ h_nopick) =>
          /\ solver'.time = 0 /\ w_time' = 0
          /\ solver'.state = Zeros(2 * c_np)
          /\ Len(solver'.state) = 2 * w_np
          /\ deque' = <<[time |-> 0, state |-> Zeros(2 * c_np)]>>]_vars

\* a spawned particle is back at the origin at time 0 after the Worker has
\* rebuilt for update_aspect_ratio
C29_Witness ==
  /\ h_calls = <<"spawn", "update_aspect_ratio">>
  /\ h_nopick
  /\ w_pc = "respond" /\ msg.kind = "Reset"
  /\ w_np = 1
  /\ solver.time = 0 /\ solver.state = <<0, 0>>

\* get_state examines a snapshot in this step: it keeps it as an older one
\* or returns with it as the target
Examines ==
  /\ c_pc = "gs_loop"
  /\ (scratchpad' # scratchpad \/ c_pc' = "idle")

\* C30: every snapshot get_state(t) examines leaves the queue in the same
\* step, the older ones and the target alike, and the snapshots behind it
\* stay in place; the target of a call is therefore no longer in the queue
\* for a later call.
C30_ExaminedAreRemoved ==
  /\ [][Examines => deque # <<>> /\ deque' = Tail(deque)]_vars
  /\ [][(Examines /\ c_pc' = "gs_loop") =>
          deque # <<>> /\ scratchpad' = Append(scratchpad, Head(deque))]_vars
  /\ [][(Examines /\ c_pc' = "idle") =>
          /\ deque # <<>>
          /\ result'.target = Head(deque)
          /\ Len(deque') = Len(deque) - 1
          /\ \A i \in DOMAIN deque' : deque'[i] = deque[i + 1]]_vars

\* get_state has returned after removing an older snapshot and its target,
\* and a newer snapshot is still queued
C30_Witness ==
  /\ c_pc = "idle" /\ result.kind = "state"
  /\ scratchpad # <<>>
  /\ deque # <<>> /\ Head(deque).time > result.target.time

Abs(x) == IF x < 0 THEN -x ELSE x

\* the velocity components of the particles that exist before and after a step
Surviving == 1..(IF Len(velocities') < Len(velocities) THEN Len(velocities') ELSE Len(velocities))

\* C31: velocity magnitudes are conserved.  A step changes at most the sign
\* of a velocity component of a particle that exists before and after it
\* (integration, Reset, Spawn or Pop of other particles), and the components
\* added by a successful Spawn are the ones drawn for the new particles.
C31_VelocityMagnitudes ==
  /\ [][\A i \in Surviving : Abs(velocities'[i]) = Abs(velocities[i])]_vars
  /\ [][(w_pc = "sample" /\ Len(velocities') > Len(velocities)) =>
          /\ Len(velocities') = Len(velocities) + 2 * Len(new_particles)
          /\ \A k \in DOMAIN new_particles :
               /\ velocities'[Len(velocities) + 2 * k - 1] = new_particles[k].vel[1]
               /\ velocities'[Len(velocities) + 2 * k] = new_particles[k].vel[2]]_vars
  /\ [][Len(velocities') > Len(velocities) => w_pc = "sample"]_vars

\* the particle drawn with velocity (0.5, 0) has bounced off the wall, and
\* a second particle was spawned and popped again since
C31_Witness ==
  /\ h_calls = <<"spawn", "spawn", "pop">>
  /\ c_pc = "idle"
  /\ w_np = 1
  /\ velocities = <<-2, 0>>

\* park() returns in this step because it found the token
PassesPark == w_pc = "park" /\ len > Threshold /\ w_pc' = "head"

\* C32: with no call after Physics::new the Worker publishes exactly
\* threshold + 2 snapshots (4 in headless mode, 102 in display mode) and then
\* stays blocked in park: the token set by Physics::new lets it pass park
\* once, after threshold + 1 snapshots.
C32_QuietWorker ==
  /\ [](Len(deque) <= Threshold + 2)
  /\ <>[](Len(deque) = Threshold + 2 /\ Parked)
  /\ [][PassesPark => Len(deque) = Threshold + 1 /\ token /\ ~token']_vars

\* display mode: 102 snapshots are queued and the Worker is blocked in park
C32_Witness == display /\ Len(deque) = 102 /\ Parked /\ ops = 0

\* the Worker accepts a candidate position in this step of Spawn
AcceptsCandidate == w_pc = "sample" /\ Len(new_particles') = Len(new_particles) + 1

\* C33: once update_aspect_ratio(a) with a changed ratio has returned, and
\* until the next one is called, the Worker and its solver hold a: every step
\* published is computed with a, and every candidate a Spawn accepts passed
\* the bounds check for a.
C33_AspectRatioInForce ==
  /\ [](~InReset => (w_aspect = c_aspect /\ solver.data.aspect_ratio = c_aspect))
  /\ [][(Publishes /\ ~InReset) =>
          Last(deque').state =
            EulerStep(NewSolver(solver.time, solver.state, c_radius, c_aspect),
                      velocities).state]_vars
  /\ [][(AcceptsCandidate /\ ~InReset) =>
          ~OutOfBoxY(Last(new_particles').pos[2], c_radius, c_aspect)]_vars

\* after update_aspect_ratio(2) has returned a spawn has succeeded and the
\* Worker has published a step of the new particles
C33_Witness ==
  /\ h_calls = <<"update_aspect_ratio", "spawn">>
  /\ c_pc = "idle" /\ result.kind = "spawn" /\ result.ok
  /\ c_aspect = 2 /\ w_aspect = 2 /\ solver.data.aspect_ratio = 2
  /\ Len(deque) >= 2

\* the encoder thread leaves its receive loop in this step
LeavesLoop == e_pc = "loop" /\ e_pc' = "flush"

\* C34: when the encoder thread leaves its receive loop, every frame that was
\* sent before the finish signal has been taken off the channel and encoded,
\* in sending order.
C34_FramesBeforeFinish ==
  [][LeavesLoop =>
       /\ e_frames = <<>>
       /\ e_encoded = [i \in 1..e_sent |-> i]]_vars

\* C35: a len, get_state or push_circle call never receives a response of the
\* wrong kind: what it receives is the Length, State or PushCircleResponse
\* made for its own request, however the simulate, pop and update_aspect_ratio
\* messages are interleaved, so no call reaches its "invalid response" panic.
C35_ResponseMatchesRequest ==
  /\ r_pc # "panic"
  /\ r_resp # NoResponse =>
       /\ r_resp.got.kind = Expected(r_resp.for.kind)
       /\ r_resp.got.id = r_resp.for.id
  /\ \A i \in DOMAIN pm_recv : pm_recv[i].id = r_req

C35_Witness ==
  /\ renders = 2
  /\ r_pc = "idle"
  /\ r_physics_len = 2
  /\ Len(circles) = 1
  /\ r_resp.got = Message("State", circles, r_req)
  /\ r_req = 7

\* C36: when a render that found "controls.count" returns, the slider holds
\* the particle count of the physics thread; after a spawn that could not
\* place every particle it holds the count that was reached.
C36_SliderIsLen ==
  (r_pc = "idle" /\ renders > 0 /\ r_input # Absent) =>
    r_input = Slider(AsF64(Len(circles)))

\* C37: once the PhysicsMessager is dropped the thread takes every message
\* that is still queued, and only then its loop ends and it terminates.
C37_ThreadEndsAfterDrop ==
  /\ (r_pc = "dropped") ~> (t_pc = "ended")
  /\ [](t_pc = "ended" => (pm_send = <<>> /\ h_done = h_left /\ r_pc = "dropped"))

C37_Witness == r_pc = "dropped" /\ t_pc = "ended" /\ h_left = 2 /\ h_done = 2 /\ renders = 1

\* C38: when the Worker sends the success response of a Reset, Spawn or Pop,
\* the queue holds exactly one snapshot, the resume time with the resume
\* state, and that state has 2 entries for each particle the Worker now has:
\* no snapshot of the old dimensionality is left when the Controller goes on.
C38_OneSnapshotAtResponse ==
  [][Responds(TRUE) =>
       /\ Len(deque) = 1
       /\ deque[1].time = start_time
       /\ deque[1].time = w_time
       /\ deque[1].state = solver.state
       /\ msg.kind = "Reset" => deque[1].state = start_state
       /\ Len(deque[1].state) = 2 * w_np
       /\ Len(velocities) = 2 * w_np
       /\ deque' = deque]_vars

C38_Witness ==
  /\ h_calls = <<"spawn", "spawn", "pop">>
  /\ response_ch = <<TRUE>>
  /\ w_np = 1
  /\ Len(deque) = 1
  /\ Len(deque[1].state) = 2

====
